---- MODULE Spec2Model ----
(***************************************************************************)
(* Model of the suite execution engine of lisa (src/lisa/testsuite.py):    *)
(* the per-case result state machine (TestResult.set_status,               *)
(* TestResult.handle_exception) and the orchestrator TestSuite.start with  *)
(* its lifecycle hooks, the bounded retry of retry_call and the advisory   *)
(* stop signal; the metadata registry (_add_suite_metadata,                *)
(* _add_case_metadata); TestCaseRequirement and                            *)
(* TestResult.check_environment; and the resolution of the variables of a  *)
(* runbook (src/lisa/variable.py, _load_from_runbook).  Each component has *)
(* its own specification over the same variables.                          *)
(*                                                                         *)
(* Strings are TLA+ strings; f-strings are concatenations (\o) and         *)
(* "\n".join is modelled by Join.  One step of the model is one invocation *)
(* of a hook or of a case body together with the code of start that        *)
(* follows it up to the next invocation.                                   *)
(***************************************************************************)
EXTENDS Integers, Sequences, FiniteSets, TLC

\* ------------------------------------------------------------------ bounds
\* the longest list of case records handed to start
NumCases == 2
\* the largest value of runtime_data.retry
MaxRetry == 1

\* ------------------------------------------------------- program constants
\* the cut of the message of a result message, self.message[0:2048]
MaxMessageLen == 2048

\* ------------------------------------------------------------------- types
TestStatus == {"NOTRUN", "RUNNING", "FAILED", "PASSED", "SKIPPED", "ATTEMPTED"}

\* the exception classes handle_exception tells apart; an exception that is
\* an instance of none of them is a generic error
Signals == {"SkippedException", "NotRunException", "PassedException"}

\* str(exception) of the exceptions a hook or a body raises
Details == {"", "boom"}

\* messages a record can hold when it is handed to start: a fresh record has
\* none, a record kept NOTRUN by an earlier run has the text of that run
EntryMessages == {"", "notrun: earlier"}

\* what one invocation of a hook or a body does: it returns, or it raises an
\* exception that is an instance of the classes in `classes`
NoException == [raises |-> FALSE, classes |-> {}, text |-> ""]

\* the exceptions the hooks and bodies of a run raise: a generic error with
\* or without text, and each of the three signals
Exceptions ==
    [raises : {TRUE}, classes : {{}}, text : Details]
        \cup [raises : {TRUE}, classes : {{c} : c \in Signals}, text : Details \ {""}]

Outcomes == {NoException} \cup Exceptions

\* isinstance(exception, class)
isinstance(exception, class) == class \in exception.classes

Min(a, b) == IF a < b THEN a ELSE b

VARIABLES
    pc,                   \* position of the control flow inside start
    n,                    \* len(case_results)
    idx,                  \* position of case_result in case_results, 1-based
    results,              \* the TestResult objects of case_results
    runtime_data,         \* case_result.runtime_data: retry, ignore_failure
    should_stop,          \* TestSuite._should_stop
    is_new,               \* environment.is_new
    is_suite_continue,    \* local of start
    suite_error_message,  \* local of start
    is_continue,          \* local of start
    tries,                \* _tries of the retry_call in progress
    entry,                \* history: the records as they were handed to start
    calls,                \* history: invocations of the suite hooks, and of
                          \*   the latest retry_call of the record in process
    invoked,              \* history: per record, the hooks invoked for it
    raised,               \* history: the exception that left the retry_call of
                          \*   the body, per record, and of before_case, for
                          \*   the record in process; earlier: the kind of
                          \*   exception of the latest attempt that the
                          \*   retry_call of before_case or of the body
                          \*   repeated
    hook_failed,          \* history: before_suite, after_suite or after_case
                          \*   of the record in process ended with an exception
    stop_case,            \* history: the record in process at the first stop()
    call,                 \* the arguments of a direct call of a method or
                          \* function and, for _load_from_runbook, its locals
    run,                  \* history: the invocations of start on this TestSuite
    snapshot,             \* history: the record as a direct call left it; for
                          \*   the registry, the collection a caller was handed
    registry,             \* the module globals _all_suites and _all_cases
    load,                 \* the decorators applied so far, and whether the
                          \*   last one raised
    check                 \* a TestCaseRequirement under construction and the
                          \*   outcome of check_environment with it

\* the state of the other components, which no step of start touches
rest == <<run, snapshot, registry, load, check>>

vars == <<pc, n, idx, results, runtime_data, should_stop, is_new,
          is_suite_continue, suite_error_message, is_continue, tries,
          entry, calls, invoked, raised, hook_failed, stop_case, call, rest>>

Cases == 1..NumCases

\* ------------------------------------------------------------- TestResult

\* "\n".join([old, new])
Join(old, new) == old \o "\n" \o new

\* Truncate with a slip: the whole log is handed on
Truncate_Whole(message) == message

\* self.message[0:2048] if self.message else ""
Truncate(message) ==
    IF Len(message) > MaxMessageLen THEN SubSeq(message, 1, MaxMessageLen) ELSE message

\* TestResult._send_result_message: the result message handed to the notifier
\* is appended to the record's list of emitted messages
send_result_message(r) ==
    [r EXCEPT !.sent = Append(r.sent, [status |-> r.status, message |-> Truncate(r.message)])]

\* "\n".join(messages)
RECURSIVE JoinAll(_)
JoinAll(messages) ==
    IF messages = <<>> THEN ""
    ELSE IF Len(messages) = 1 THEN messages[1]
    ELSE Join(messages[1], JoinAll(Tail(messages)))

\* the message log after set_status(_, messages) with a list of texts
MessageAfterList(old, messages) ==
    IF messages # <<>>
    THEN JoinAll(IF old # "" THEN <<old>> \o messages ELSE messages)
    ELSE old

\* MessageAfter with a slip: the new text is put before the log
MessageAfter_NewestFirst(old, message) ==
    IF message # ""
    THEN IF old # "" THEN Join(message, old) ELSE message
    ELSE old

\* the message log after set_status(_, message) with one text
MessageAfter(old, message) ==
    IF message # ""
    THEN IF old # "" THEN Join(old, message) ELSE message
    ELSE old

\* set_status with a slip: the result message is sent by every call
set_status_AlwaysSends(r, new_status, message) ==
    LET logged == [r EXCEPT !.message = MessageAfter(r.message, message)]
    IN  send_result_message(
            IF logged.status # new_status
            THEN [logged EXCEPT !.status = new_status,
                                !.timers = IF new_status = "RUNNING" THEN @ + 1 ELSE @]
            ELSE logged)

\* set_status with a slip: the timer is created by every call with RUNNING
set_status_TimerAlways(r, new_status, message) ==
    LET logged == [r EXCEPT !.message = MessageAfter(r.message, message),
                            !.timers = IF new_status = "RUNNING" THEN @ + 1 ELSE @]
    IN  IF logged.status # new_status
        THEN send_result_message([logged EXCEPT !.status = new_status])
        ELSE logged

\* TestResult.set_status
set_status(r, new_status, message) ==
    LET logged == [r EXCEPT !.message = MessageAfter(r.message, message)]
    IN  IF logged.status # new_status
        THEN send_result_message(
                 [logged EXCEPT !.status = new_status,
                                !.timers = IF new_status = "RUNNING" THEN @ + 1 ELSE @])
        ELSE logged

\* TestResult.set_status with a list of texts for message
set_status_list(r, new_status, messages) ==
    set_status([r EXCEPT !.message = MessageAfterList(r.message, messages)],
               new_status, "")

\* PhasePrefix with a slip: the blank is added to an empty phase too
PhasePrefix_Always(phase) == phase \o " "

\* phase = f"{phase} " when a phase is given
PhasePrefix(phase) == IF phase # "" THEN phase \o " " ELSE phase

\* handle_exception with a slip: the pass-with-warning signal is tested first
handle_exception_PassedFirst(r, exception, ignore_failure, phase) ==
    LET p == PhasePrefix(phase)
    IN  IF isinstance(exception, "PassedException")
        THEN set_status(r, "PASSED", p \o "warning: " \o exception.text)
        ELSE IF isinstance(exception, "SkippedException")
        THEN set_status(r, "SKIPPED", p \o "skipped: " \o exception.text)
        ELSE IF isinstance(exception, "NotRunException")
        THEN set_status(r, "NOTRUN", p \o "notrun: " \o exception.text)
        ELSE IF ignore_failure
        THEN set_status(r, "ATTEMPTED", p \o exception.text)
        ELSE set_status(r, "FAILED", p \o "failed: " \o exception.text)

\* handle_exception with a slip: ignore_failure is not consulted
handle_exception_FailureNotIgnored(r, exception, ignore_failure, phase) ==
    LET p == PhasePrefix(phase)
    IN  IF isinstance(exception, "SkippedException")
        THEN set_status(r, "SKIPPED", p \o "skipped: " \o exception.text)
        ELSE IF isinstance(exception, "NotRunException")
        THEN set_status(r, "NOTRUN", p \o "notrun: " \o exception.text)
        ELSE IF isinstance(exception, "PassedException")
        THEN set_status(r, "PASSED", p \o "warning: " \o exception.text)
        ELSE IF FALSE
        THEN set_status(r, "ATTEMPTED", p \o exception.text)
        ELSE set_status(r, "FAILED", p \o "failed: " \o exception.text)

\* TestResult.handle_exception
handle_exception(r, exception, ignore_failure, phase) ==
    LET p == PhasePrefix(phase)
    IN  IF isinstance(exception, "SkippedException")
        THEN set_status(r, "SKIPPED", p \o "skipped: " \o exception.text)
        ELSE IF isinstance(exception, "NotRunException")
        THEN set_status(r, "NOTRUN", p \o "notrun: " \o exception.text)
        ELSE IF isinstance(exception, "PassedException")
        THEN set_status(r, "PASSED", p \o "warning: " \o exception.text)
        ELSE IF ignore_failure
        THEN set_status(r, "ATTEMPTED", p \o exception.text)
        ELSE set_status(r, "FAILED", p \o "failed: " \o exception.text)

\* a TestResult after construction: __post_init__ emits one result message
NewResult(message) ==
    send_result_message([status |-> "NOTRUN", message |-> message, timers |-> 0, sent |-> <<>>])

\* ---------------------------------------------------------------- history
\* calls.hook and calls.attempts: the retry_call that is in progress or was
\* the last to end for the record in process, and the invocations it made
NoCalls == [before_suite |-> 0, after_suite |-> 0, hook |-> "none", attempts |-> 0]

\* calls after one more invocation of hook by its retry_call
Attempt(hook) ==
    [calls EXCEPT !.hook = hook,
                  !.attempts = IF calls.hook = hook THEN @ + 1 ELSE 1]

NoHookFailed == [before_suite |-> FALSE, after_case |-> FALSE, after_suite |-> FALSE]

NothingRaised ==
    [before_case |-> NoException, body |-> [i \in Cases |-> NoException],
     earlier |-> "none"]

\* what an attempt ended with: no exception, one of the classified signals,
\* or a generic error
Kind(outcome) ==
    IF ~outcome.raises THEN "none"
    ELSE IF outcome.classes \cap Signals # {} THEN "signal"
    ELSE "error"

\* raised after an attempt of hook that retry_call repeats
Repeated(outcome) == [raised EXCEPT !.earlier = Kind(outcome)]

\* raised after the last attempt of hook: earlier is that of the
\* attempt before it, if the retry_call of hook made one
LastAttempt(hook) ==
    [raised EXCEPT !.earlier = IF calls.hook = hook THEN @ ELSE "none"]

NoCall == [exception |-> NoException, phase |-> ""]

\* the other components before anything is done with them: start called once,
\* no direct call made, nothing registered, no requirement constructed
NoSnapshot == [status |-> "NOTRUN", message |-> "", timers |-> 0, sent |-> <<>>]

EmptyRegistry == [all_suites |-> <<>>, all_cases |-> <<>>]

NothingLoaded == [declared |-> {}, raised |-> FALSE]

\* requirement and check_results hold at most one object: <<>> is None
NoCheck == [requirement |-> <<>>, raised |-> FALSE, returned |-> FALSE,
            result |-> FALSE, checked |-> 0, check_results |-> <<>>]

RestInit ==
    /\ run = 1
    /\ snapshot = NoSnapshot
    /\ registry = EmptyRegistry
    /\ load = NothingLoaded
    /\ check = NoCheck

\* ------------------------------------------------------------------- Init
\* the state after TestSuite.__init__, with the arguments of start chosen:
\* a list of 0..NumCases records, all NOTRUN (can_run), each with its own
\* retry; the records of one run share ignore_failure and the entry log
Init ==
    /\ pc = "idle"
    /\ n \in 0..NumCases
    /\ idx = 0
    /\ \E m \in EntryMessages :
           results = [i \in Cases |-> NewResult(IF i <= n THEN m ELSE "")]
    /\ entry = results
    /\ \E retry \in [Cases -> 0..MaxRetry], ignore_failure \in BOOLEAN :
           runtime_data = [i \in Cases |->
                              IF i <= n
                              THEN [retry |-> retry[i], ignore_failure |-> ignore_failure]
                              ELSE [retry |-> 0, ignore_failure |-> FALSE]]
    /\ should_stop = FALSE
    /\ is_new \in BOOLEAN
    /\ is_suite_continue = TRUE
    /\ suite_error_message = ""
    /\ is_continue = TRUE
    /\ tries = 0
    /\ calls = NoCalls
    /\ invoked = [i \in Cases |-> {}]
    /\ raised = NothingRaised
    /\ hook_failed = NoHookFailed
    /\ stop_case = 0
    /\ call = NoCall
    /\ RestInit

\* Tries with a slip: one attempt too many
Tries_OneMore(i) == runtime_data[i].retry + 2

\* ------------------------------------------------------------ TestSuite
\* retry_call(f, tries=case_result.runtime_data.retry + 1): the first value
\* of _tries
Tries(i) == runtime_data[i].retry + 1

\* TestSuite.__suite_method: (result, message) for one invocation of method
suite_method(method_name, outcome) ==
    IF outcome = NoException
    THEN [result |-> TRUE, message |-> ""]
    ELSE [result |-> FALSE, message |-> method_name \o ": " \o outcome.text]

\* Start with a slip: the environment is left as it was handed in
Start_KeepsNew ==
    /\ pc = "idle"
    /\ is_new' = is_new
    /\ suite_error_message' = ""
    /\ pc' = "before_suite"
    /\ UNCHANGED <<n, idx, results, runtime_data, should_stop, is_suite_continue,
                   is_continue, tries, entry, calls, invoked, raised, hook_failed,
                   stop_case, call, rest>>

\* TestSuite.start, up to the call of before_suite
Start ==
    /\ pc = "idle"
    /\ is_new' = FALSE
    /\ suite_error_message' = ""
    /\ pc' = "before_suite"
    /\ UNCHANGED <<n, idx, results, runtime_data, should_stop, is_suite_continue,
                   is_continue, tries, entry, calls, invoked, raised, hook_failed,
                   stop_case, call, rest>>

\* BeforeSuite with a slip: before_suite is invoked again after it failed
BeforeSuite_Retried ==
    /\ pc = "before_suite"
    /\ \E outcome \in Outcomes :
           LET r == suite_method("before_suite", outcome)
           IN  /\ is_suite_continue' = r.result
               /\ suite_error_message' = r.message
               /\ hook_failed' = [hook_failed EXCEPT !.before_suite = outcome.raises]
               /\ pc' = IF outcome.raises /\ calls.before_suite = 0
                        THEN "before_suite" ELSE "for"
    /\ calls' = [calls EXCEPT !.before_suite = @ + 1]
    /\ UNCHANGED <<n, idx, results, runtime_data, should_stop, is_new,
                   is_continue, tries, entry, invoked, raised, stop_case, call, rest>>

\* self.__suite_method(self.before_suite, ...): one invocation, never retried
BeforeSuite ==
    /\ pc = "before_suite"
    /\ \E outcome \in Outcomes :
           LET r == suite_method("before_suite", outcome)
           IN  /\ is_suite_continue' = r.result
               /\ suite_error_message' = r.message
               /\ hook_failed' = [hook_failed EXCEPT !.before_suite = outcome.raises]
    /\ calls' = [calls EXCEPT !.before_suite = @ + 1]
    /\ pc' = "for"
    /\ UNCHANGED <<n, idx, results, runtime_data, should_stop, is_new,
                   is_continue, tries, entry, invoked, raised, stop_case, call, rest>>

\* CaseBegin with a slip: is_continue starts True whatever before_suite did
CaseBegin_IgnoresSuiteFailure ==
    /\ pc = "for"
    /\ idx < n
    /\ idx' = idx + 1
    /\ is_continue' = TRUE
    /\ results' = [results EXCEPT ![idx + 1] = set_status(@, "RUNNING", "")]
    /\ tries' = Tries(idx + 1)
    /\ pc' = "before_case"
    /\ UNCHANGED <<n, runtime_data, should_stop, is_new, is_suite_continue,
                   suite_error_message, entry, calls, invoked, raised, hook_failed,
                   stop_case, call, rest>>

\* CaseBegin with a slip: the record is not set RUNNING
CaseBegin_NoRunning ==
    /\ pc = "for"
    /\ idx < n
    /\ idx' = idx + 1
    /\ is_continue' = is_suite_continue
    /\ results' = [results EXCEPT ![idx + 1] = @]
    /\ tries' = Tries(idx + 1)
    /\ pc' = "before_case"
    /\ UNCHANGED <<n, runtime_data, should_stop, is_new, is_suite_continue,
                   suite_error_message, entry, calls, invoked, raised, hook_failed,
                   stop_case, call, rest>>

\* for case_result in case_results: the next record, up to
\* case_result.set_status(TestStatus.RUNNING, "")
CaseBegin ==
    /\ pc = "for"
    /\ idx < n
    /\ idx' = idx + 1
    /\ is_continue' = is_suite_continue
    /\ results' = [results EXCEPT ![idx + 1] = set_status(@, "RUNNING", "")]
    /\ tries' = Tries(idx + 1)
    /\ pc' = "before_case"
    /\ UNCHANGED <<n, runtime_data, should_stop, is_new, is_suite_continue,
                   suite_error_message, entry, calls, invoked, raised, hook_failed,
                   stop_case, call, rest>>

\* SuiteSkip with a slip: a record skipped for the suite-level setup goes
\* without its after_case
SuiteSkip_NoAfterCase ==
    /\ pc = "before_case"
    /\ ~is_continue
    /\ results' = [results EXCEPT ![idx] = set_status(@, "SKIPPED", suite_error_message)]
    /\ tries' = 0
    /\ pc' = "loop_check"
    /\ UNCHANGED <<n, idx, runtime_data, should_stop, is_new, is_suite_continue,
                   suite_error_message, is_continue, entry, calls, invoked, raised,
                   hook_failed, stop_case, call, rest>>

\* the else branch of "if is_continue": the suite-level setup failed
SuiteSkip ==
    /\ pc = "before_case"
    /\ ~is_continue
    /\ results' = [results EXCEPT ![idx] = set_status(@, "SKIPPED", suite_error_message)]
    /\ tries' = Tries(idx)
    /\ pc' = "after_case"
    /\ UNCHANGED <<n, idx, runtime_data, should_stop, is_new, is_suite_continue,
                   suite_error_message, is_continue, entry, calls, invoked, raised,
                   hook_failed, stop_case, call, rest>>

\* BeforeCase with a slip: the exception that leaves the retry_call of
\* before_case is handed to handle_exception
BeforeCase_Classifies ==
    /\ pc = "before_case"
    /\ is_continue
    /\ calls' = Attempt("before_case")
    /\ invoked' = [invoked EXCEPT ![idx] = @ \cup {"before_case"}]
    /\ \E outcome \in Outcomes :
           IF outcome = NoException
           THEN /\ pc' = "run_case"
                /\ tries' = Tries(idx)
                /\ raised' = LastAttempt("before_case")
                /\ UNCHANGED <<results, is_continue>>
           ELSE IF tries - 1 # 0
           THEN /\ tries' = tries - 1
                /\ raised' = Repeated(outcome)
                /\ UNCHANGED <<pc, results, is_continue>>
           ELSE /\ results' = [results EXCEPT ![idx] =
                                  handle_exception(@, outcome,
                                                   runtime_data[idx].ignore_failure,
                                                   "before_case")]
                /\ is_continue' = FALSE
                /\ raised' = [LastAttempt("before_case") EXCEPT !.before_case = outcome]
                /\ tries' = Tries(idx)
                /\ pc' = "after_case"
    /\ UNCHANGED <<n, idx, runtime_data, should_stop, is_new, is_suite_continue,
                   suite_error_message, entry, hook_failed, stop_case, call, rest>>

\* BeforeCase with a slip: a before_case that failed on every attempt ends
\* the iteration without a status for the record
BeforeCase_LeavesRunning ==
    /\ pc = "before_case"
    /\ is_continue
    /\ calls' = Attempt("before_case")
    /\ invoked' = [invoked EXCEPT ![idx] = @ \cup {"before_case"}]
    /\ \E outcome \in Outcomes :
           IF outcome = NoException
           THEN /\ pc' = "run_case"
                /\ tries' = Tries(idx)
                /\ raised' = LastAttempt("before_case")
                /\ UNCHANGED <<results, is_continue>>
           ELSE IF tries - 1 # 0
           THEN /\ tries' = tries - 1
                /\ raised' = Repeated(outcome)
                /\ UNCHANGED <<pc, results, is_continue>>
           ELSE /\ results' = results
                /\ is_continue' = FALSE
                /\ raised' = [LastAttempt("before_case") EXCEPT !.before_case = outcome]
                /\ tries' = Tries(idx)
                /\ pc' = "after_case"
    /\ UNCHANGED <<n, idx, runtime_data, should_stop, is_new, is_suite_continue,
                   suite_error_message, entry, hook_failed, stop_case, call, rest>>

\* TestSuite.__before_case: one attempt of retry_call(self.before_case)
BeforeCase ==
    /\ pc = "before_case"
    /\ is_continue
    /\ calls' = Attempt("before_case")
    /\ invoked' = [invoked EXCEPT ![idx] = @ \cup {"before_case"}]
    /\ \E outcome \in Outcomes :
           IF outcome = NoException
           THEN /\ pc' = "run_case"
                /\ tries' = Tries(idx)
                /\ raised' = LastAttempt("before_case")
                /\ UNCHANGED <<results, is_continue>>
           ELSE IF tries - 1 # 0
           THEN /\ tries' = tries - 1
                /\ raised' = Repeated(outcome)
                /\ UNCHANGED <<pc, results, is_continue>>
           ELSE /\ results' = [results EXCEPT ![idx] =
                                  set_status(@, "SKIPPED", "before_case: " \o outcome.text)]
                /\ is_continue' = FALSE
                /\ raised' = [LastAttempt("before_case") EXCEPT !.before_case = outcome]
                /\ tries' = Tries(idx)
                /\ pc' = "after_case"
    /\ UNCHANGED <<n, idx, runtime_data, should_stop, is_new, is_suite_continue,
                   suite_error_message, entry, hook_failed, stop_case, call, rest>>

\* RunCase with a slip: the exception of an attempt that is retried is
\* written to the message log
RunCase_LogsEachAttempt ==
    /\ pc = "run_case"
    /\ calls' = Attempt("body")
    /\ invoked' = [invoked EXCEPT ![idx] = @ \cup {"body"}]
    /\ \E outcome \in Outcomes :
           IF outcome = NoException
           THEN /\ results' = [results EXCEPT ![idx] = set_status(@, "PASSED", "")]
                /\ tries' = Tries(idx)
                /\ pc' = "after_case"
                /\ raised' = LastAttempt("body")
           ELSE IF tries - 1 # 0
           THEN /\ tries' = tries - 1
                /\ results' = [results EXCEPT ![idx] =
                                  set_status(@, "RUNNING", "retry: " \o outcome.text)]
                /\ raised' = Repeated(outcome)
                /\ UNCHANGED pc
           ELSE /\ results' = [results EXCEPT ![idx] =
                                  handle_exception(@, outcome,
                                                   runtime_data[idx].ignore_failure, "")]
                /\ raised' = [LastAttempt("body") EXCEPT !.body[idx] = outcome]
                /\ tries' = Tries(idx)
                /\ pc' = "after_case"
    /\ UNCHANGED <<n, idx, runtime_data, should_stop, is_new, is_suite_continue,
                   suite_error_message, is_continue, entry, hook_failed, stop_case, call, rest>>

\* RunCase with a slip: a signal raised by the attempt before the last
\* keeps the last exception from handle_exception, the record is SKIPPED
RunCase_ReportsEarlier ==
    /\ pc = "run_case"
    /\ calls' = Attempt("body")
    /\ invoked' = [invoked EXCEPT ![idx] = @ \cup {"body"}]
    /\ \E outcome \in Outcomes :
           IF outcome = NoException
           THEN /\ results' = [results EXCEPT ![idx] = set_status(@, "PASSED", "")]
                /\ tries' = Tries(idx)
                /\ pc' = "after_case"
                /\ raised' = LastAttempt("body")
           ELSE IF tries - 1 # 0
           THEN /\ tries' = tries - 1
                /\ raised' = Repeated(outcome)
                /\ UNCHANGED <<pc, results>>
           ELSE /\ results' = [results EXCEPT ![idx] =
                                  IF LastAttempt("body").earlier = "signal"
                                  THEN set_status(@, "SKIPPED", "skipped: ")
                                  ELSE handle_exception(@, outcome,
                                           runtime_data[idx].ignore_failure, "")]
                /\ raised' = [LastAttempt("body") EXCEPT !.body[idx] = outcome]
                /\ tries' = Tries(idx)
                /\ pc' = "after_case"
    /\ UNCHANGED <<n, idx, runtime_data, should_stop, is_new, is_suite_continue,
                   suite_error_message, is_continue, entry, hook_failed, stop_case, call, rest>>

\* TestSuite.__run_case: one attempt of retry_call(test_method)
RunCase ==
    /\ pc = "run_case"
    /\ calls' = Attempt("body")
    /\ invoked' = [invoked EXCEPT ![idx] = @ \cup {"body"}]
    /\ \E outcome \in Outcomes :
           IF outcome = NoException
           THEN /\ results' = [results EXCEPT ![idx] = set_status(@, "PASSED", "")]
                /\ tries' = Tries(idx)
                /\ pc' = "after_case"
                /\ raised' = LastAttempt("body")
           ELSE IF tries - 1 # 0
           THEN /\ tries' = tries - 1
                /\ raised' = Repeated(outcome)
                /\ UNCHANGED <<pc, results>>
           ELSE /\ results' = [results EXCEPT ![idx] =
                                  handle_exception(@, outcome,
                                                   runtime_data[idx].ignore_failure, "")]
                /\ raised' = [LastAttempt("body") EXCEPT !.body[idx] = outcome]
                /\ tries' = Tries(idx)
                /\ pc' = "after_case"
    /\ UNCHANGED <<n, idx, runtime_data, should_stop, is_new, is_suite_continue,
                   suite_error_message, is_continue, entry, hook_failed, stop_case, call, rest>>

\* AfterCase with a slip: the exception that leaves the retry_call of
\* after_case is handed to handle_exception
AfterCase_Classifies ==
    /\ pc = "after_case"
    /\ calls' = Attempt("after_case")
    /\ invoked' = [invoked EXCEPT ![idx] = @ \cup {"after_case"}]
    /\ raised' = LastAttempt("after_case")
    /\ \E outcome \in Outcomes :
           IF outcome = NoException
           THEN /\ pc' = "loop_check"
                /\ tries' = 0
                /\ UNCHANGED <<hook_failed, results>>
           ELSE IF tries - 1 # 0
           THEN /\ tries' = tries - 1
                /\ UNCHANGED <<pc, hook_failed, results>>
           ELSE /\ hook_failed' = [hook_failed EXCEPT !.after_case = TRUE]
                /\ results' = [results EXCEPT ![idx] =
                                  handle_exception(@, outcome,
                                                   runtime_data[idx].ignore_failure,
                                                   "after_case")]
                /\ tries' = 0
                /\ pc' = "loop_check"
    /\ UNCHANGED <<n, idx, runtime_data, should_stop, is_new,
                   is_suite_continue, suite_error_message, is_continue, entry,
                   stop_case, call, rest>>

\* TestSuite.__after_case: one attempt of retry_call(self.after_case)
AfterCase ==
    /\ pc = "after_case"
    /\ calls' = Attempt("after_case")
    /\ invoked' = [invoked EXCEPT ![idx] = @ \cup {"after_case"}]
    /\ raised' = LastAttempt("after_case")
    /\ \E outcome \in Outcomes :
           IF outcome = NoException
           THEN /\ pc' = "loop_check"
                /\ tries' = 0
                /\ UNCHANGED hook_failed
           ELSE IF tries - 1 # 0
           THEN /\ tries' = tries - 1
                /\ UNCHANGED <<pc, hook_failed>>
           ELSE /\ hook_failed' = [hook_failed EXCEPT !.after_case = TRUE]
                /\ tries' = 0
                /\ pc' = "loop_check"
    /\ UNCHANGED <<n, idx, results, runtime_data, should_stop, is_new,
                   is_suite_continue, suite_error_message, is_continue, entry,
                   stop_case, call, rest>>

\* LoopCheck with a slip: the stop signal is not observed
LoopCheck_NoBreak ==
    /\ pc = "loop_check"
    /\ pc' = "for"
    /\ calls' = [calls EXCEPT !.hook = "none", !.attempts = 0]
    /\ hook_failed' = [hook_failed EXCEPT !.after_case = FALSE]
    /\ raised' = [raised EXCEPT !.before_case = NoException, !.earlier = "none"]
    /\ UNCHANGED <<n, idx, results, runtime_data, should_stop, is_new,
                   is_suite_continue, suite_error_message, is_continue, tries,
                   entry, invoked, stop_case, call, rest>>

\* LoopCheck with a slip: return in the place of break
LoopCheck_Returns ==
    /\ pc = "loop_check"
    /\ pc' = IF should_stop THEN "done" ELSE "for"
    /\ calls' = [calls EXCEPT !.hook = "none", !.attempts = 0]
    /\ hook_failed' = [hook_failed EXCEPT !.after_case = FALSE]
    /\ raised' = [raised EXCEPT !.before_case = NoException, !.earlier = "none"]
    /\ UNCHANGED <<n, idx, results, runtime_data, should_stop, is_new,
                   is_suite_continue, suite_error_message, is_continue, tries,
                   entry, invoked, stop_case, call, rest>>

\* LoopCheck with a slip: a record that ended FAILED is handed to the loop
\* once more
LoopCheck_RunsAgain ==
    /\ pc = "loop_check"
    /\ pc' = IF should_stop THEN "after_suite" ELSE "for"
    /\ idx' = IF results[idx].status = "FAILED" THEN idx - 1 ELSE idx
    /\ calls' = [calls EXCEPT !.hook = "none", !.attempts = 0]
    /\ hook_failed' = [hook_failed EXCEPT !.after_case = FALSE]
    /\ raised' = [raised EXCEPT !.before_case = NoException, !.earlier = "none"]
    /\ UNCHANGED <<n, results, runtime_data, should_stop, is_new,
                   is_suite_continue, suite_error_message, is_continue, tries,
                   entry, invoked, stop_case, call, rest>>

\* if self._should_stop: break; the iteration of this record ends here and
\* the history of its invocations is dropped
LoopCheck ==
    /\ pc = "loop_check"
    /\ pc' = IF should_stop THEN "after_suite" ELSE "for"
    /\ calls' = [calls EXCEPT !.hook = "none", !.attempts = 0]
    /\ hook_failed' = [hook_failed EXCEPT !.after_case = FALSE]
    /\ raised' = [raised EXCEPT !.before_case = NoException, !.earlier = "none"]
    /\ UNCHANGED <<n, idx, results, runtime_data, should_stop, is_new,
                   is_suite_continue, suite_error_message, is_continue, tries,
                   entry, invoked, stop_case, call, rest>>

\* the for loop has no record left
LoopEnd ==
    /\ pc = "for"
    /\ idx = n
    /\ pc' = "after_suite"
    /\ UNCHANGED <<n, idx, results, runtime_data, should_stop, is_new,
                   is_suite_continue, suite_error_message, is_continue, tries,
                   entry, calls, invoked, raised, hook_failed, stop_case, call, rest>>

\* self.__suite_method(self.after_suite, ...): the result is dropped
AfterSuite ==
    /\ pc = "after_suite"
    /\ calls' = [calls EXCEPT !.after_suite = @ + 1]
    /\ \E outcome \in Outcomes :
           hook_failed' = [hook_failed EXCEPT
                              !.after_suite = ~suite_method("after_suite", outcome).result]
    /\ pc' = "done"
    /\ UNCHANGED <<n, idx, results, runtime_data, should_stop, is_new,
                   is_suite_continue, suite_error_message, is_continue, tries,
                   entry, invoked, raised, stop_case, call, rest>>

\* the record in process, or the next one to be, at the current position
CaseInProcess ==
    IF pc \in {"idle", "before_suite"} THEN 1
    ELSE IF pc = "for" THEN idx + 1
    ELSE IF pc \in {"after_suite", "done"} THEN n + 1
    ELSE idx

\* TestSuite.stop, called by a hook, a body or another thread
Stop ==
    /\ pc # "done"
    /\ should_stop' = TRUE
    /\ stop_case' = IF stop_case # 0 THEN stop_case ELSE CaseInProcess
    /\ UNCHANGED <<pc, n, idx, results, runtime_data, is_new, is_suite_continue,
                   suite_error_message, is_continue, tries, entry, calls, invoked,
                   raised, hook_failed, call, rest>>

Next ==
    \/ Start
    \/ BeforeSuite
    \/ CaseBegin
    \/ SuiteSkip
    \/ BeforeCase
    \/ RunCase
    \/ AfterCase
    \/ LoopCheck
    \/ LoopEnd
    \/ AfterSuite
    \/ Stop

Spec == Init /\ [][Next]_vars

\* ------------------------------------- start called again on the same object
\* a second call of start on the TestSuite object, after the first has
\* returned, with another list of records: the locals of start and the
\* history are those of the new invocation, self._should_stop is the field
\* of the object
StartAgain ==
    /\ pc = "done"
    /\ run = 1
    /\ run' = 2
    /\ pc' = "idle"
    /\ n' \in 0..NumCases
    /\ idx' = 0
    /\ results' = [i \in Cases |-> NewResult("")]
    /\ entry' = results'
    /\ \E retry \in [Cases -> 0..MaxRetry], ignore_failure \in BOOLEAN :
           runtime_data' = [i \in Cases |->
                               IF i <= n'
                               THEN [retry |-> retry[i], ignore_failure |-> ignore_failure]
                               ELSE [retry |-> 0, ignore_failure |-> FALSE]]
    /\ is_new' \in BOOLEAN
    /\ is_suite_continue' = TRUE
    /\ suite_error_message' = ""
    /\ is_continue' = TRUE
    /\ tries' = 0
    /\ calls' = NoCalls
    /\ invoked' = [i \in Cases |-> {}]
    /\ raised' = NothingRaised
    /\ hook_failed' = NoHookFailed
    /\ stop_case' = 0
    /\ UNCHANGED <<should_stop, call, snapshot, registry, load, check>>

NextTwoStarts ==
    \/ Next
    \/ StartAgain

SpecTwoStarts == Init /\ [][NextTwoStarts]_vars

\* --------------------------------------- handle_exception called directly
\* every exception handle_exception can be handed: an instance of any
\* combination of the three signal classes
AllExceptions == [raises : {TRUE}, classes : SUBSET Signals, text : Details]

\* the values of the phase parameter
Phases == {"", "run"}

\* one record in any status, and the arguments of one call
InitHandleException ==
    /\ pc = "handle_exception"
    /\ n = 1
    /\ idx = 1
    /\ \E status \in TestStatus, m \in EntryMessages :
           results = [i \in Cases |->
                         IF i = 1 THEN [NewResult(m) EXCEPT !.status = status]
                         ELSE NewResult("")]
    /\ entry = results
    /\ \E ignore_failure \in BOOLEAN :
           runtime_data = [i \in Cases |-> [retry |-> 0, ignore_failure |-> ignore_failure]]
    /\ call \in [exception : AllExceptions, phase : Phases]
    /\ should_stop = FALSE
    /\ is_new = TRUE
    /\ is_suite_continue = TRUE
    /\ suite_error_message = ""
    /\ is_continue = TRUE
    /\ tries = 0
    /\ calls = NoCalls
    /\ invoked = [i \in Cases |-> {}]
    /\ raised = NothingRaised
    /\ hook_failed = NoHookFailed
    /\ stop_case = 0
    /\ RestInit

\* case_result.handle_exception(exception, log, phase)
HandleException ==
    /\ pc = "handle_exception"
    /\ results' = [results EXCEPT ![1] =
                      handle_exception(@, call.exception,
                                       runtime_data[1].ignore_failure, call.phase)]
    /\ pc' = "returned"
    /\ UNCHANGED <<n, idx, runtime_data, should_stop, is_new, is_suite_continue,
                   suite_error_message, is_continue, tries, entry, calls, invoked,
                   raised, hook_failed, stop_case, call, rest>>

NextHandleException == HandleException

SpecHandleException == InitHandleException /\ [][NextHandleException]_vars

\* -------------------------------------------- set_status called directly
\* the longest sequence of direct calls of set_status on one record
MaxCalls == 3

\* s repeated 2^k times
RECURSIVE Doubled(_, _)
Doubled(s, k) == IF k = 0 THEN s ELSE Doubled(s \o s, k - 1)

\* a message log of MaxMessageLen characters: one more character and
\* self.message[0:2048] drops it
FullMessage == Doubled("x", 11)

\* the message argument of set_status: one text
Messages == {"", "m"}

\* the message argument of set_status: a list of texts
MessageLists == {<<>>, <<"k">>, <<"k", "l">>}

\* the locals and history of start, for a TestSuite whose start is not called
StartNotCalled ==
    /\ should_stop = FALSE
    /\ is_new = TRUE
    /\ is_suite_continue = TRUE
    /\ suite_error_message = ""
    /\ is_continue = TRUE
    /\ tries = 0
    /\ entry = results
    /\ calls = NoCalls
    /\ invoked = [i \in Cases |-> {}]
    /\ raised = NothingRaised
    /\ hook_failed = NoHookFailed
    /\ stop_case = 0

\* said: history, the texts the calls so far were given, in call order
NoStatusCall ==
    [new_status |-> "NOTRUN", message |-> "", number |-> 0, repeated |-> FALSE,
     said |-> <<>>]

\* one record as TestResult(...) constructs it, with the log it is given
InitSetStatus ==
    /\ pc = "set_status"
    /\ n = 1
    /\ idx = 1
    /\ \E m \in EntryMessages \cup {FullMessage} :
           results = [i \in Cases |-> NewResult(IF i = 1 THEN m ELSE "")]
    /\ runtime_data = [i \in Cases |-> [retry |-> 0, ignore_failure |-> FALSE]]
    /\ StartNotCalled
    /\ call = NoStatusCall
    /\ run = 1
    /\ snapshot = results[1]
    /\ registry = EmptyRegistry
    /\ load = NothingLoaded
    /\ check = NoCheck

\* case_result.set_status(new_status, message); snapshot keeps the record
\* as it was before the call
SetStatus ==
    /\ pc = "set_status"
    /\ call.number < MaxCalls
    /\ \E new_status \in TestStatus, message \in Messages :
           /\ results' = [results EXCEPT ![1] = set_status(@, new_status, message)]
           /\ call' = [new_status |-> new_status, message |-> message,
                       number |-> call.number + 1,
                       repeated |-> call.number > 0 /\ call.new_status = new_status,
                       said |-> IF message # "" THEN Append(call.said, message)
                                ELSE call.said]
    /\ snapshot' = results[1]
    /\ UNCHANGED <<pc, n, idx, runtime_data, should_stop, is_new, is_suite_continue,
                   suite_error_message, is_continue, tries, entry, calls, invoked,
                   raised, hook_failed, stop_case, run, registry, load, check>>

\* case_result.set_status(new_status, [text, ...]); call.message is the
\* list joined
SetStatusList ==
    /\ pc = "set_status"
    /\ call.number < MaxCalls
    /\ \E new_status \in TestStatus, messages \in MessageLists :
           /\ results' = [results EXCEPT ![1] = set_status_list(@, new_status, messages)]
           /\ call' = [new_status |-> new_status, message |-> JoinAll(messages),
                       number |-> call.number + 1,
                       repeated |-> call.number > 0 /\ call.new_status = new_status,
                       said |-> call.said \o messages]
    /\ snapshot' = results[1]
    /\ UNCHANGED <<pc, n, idx, runtime_data, should_stop, is_new, is_suite_continue,
                   suite_error_message, is_continue, tries, entry, calls, invoked,
                   raised, hook_failed, stop_case, run, registry, load, check>>

NextSetStatus == SetStatus \/ SetStatusList

SpecSetStatus == InitSetStatus /\ [][NextSetStatus]_vars

\* --------------------------------------------------- the metadata registry
\* the most decorators applied in one load
MaxRegistrations == 4

\* an attribute that is not set, or is None
None == "None"

\* text.startswith(prefix)
startswith(text, prefix) ==
    Len(text) >= Len(prefix) /\ SubSeq(text, 1, Len(prefix)) = prefix

\* text.split(".")[0]: the text before the first dot, the whole text when it
\* has none
split_first(text) ==
    LET dots == {i \in 1..Len(text) : SubSeq(text, i, i) = "."}
    IN  IF dots = {} THEN text
        ELSE SubSeq(text, 1, (CHOOSE i \in dots : \A j \in dots : i <= j) - 1)

\* the suites a load declares: @TestSuiteMetadata(name=..., requirement=...)
\* on a class; A is declared twice, once by its class name and once by an
\* explicit name, and one explicit name has a dot
SuiteDeclarations ==
    { [name |-> "", class_name |-> "A", area |-> "a1", requirement |-> "DEFAULT_REQUIREMENT"],
      [name |-> "A", class_name |-> "X", area |-> "a2", requirement |-> "DEFAULT_REQUIREMENT"],
      [name |-> "A.B", class_name |-> "Y", area |-> "a3", requirement |-> "suite_requirement"],
      [name |-> "", class_name |-> "B", area |-> "a4", requirement |-> "suite_requirement"] }

\* the cases a load declares: @TestCaseMetadata(requirement=...) on a
\* function, with the function's __name__ and __qualname__; A.c is declared
\* twice, and A.B.c is a method of a class B nested in A
CaseDeclarations ==
    { [name |-> "c", qualname |-> "A.c", requirement |-> None],
      [name |-> "c", qualname |-> "A.c", requirement |-> "case_requirement"],
      [name |-> "c", qualname |-> "A.B.c", requirement |-> None],
      [name |-> "d", qualname |-> "B.d", requirement |-> "case_requirement"] }

\* TestSuiteMetadata.__init__ and the first lines of __call__: the metadata
\* object of a declared suite
TestSuiteMetadata(declaration) ==
    [name |-> IF declaration.name = "" THEN declaration.class_name ELSE declaration.name,
     class_name |-> declaration.class_name,
     area |-> declaration.area,
     requirement |-> declaration.requirement,
     cases |-> <<>>]

\* TestCaseMetadata.__init__ and the first lines of __call__: the metadata
\* object of a declared case; suite is not set; created_with is history, the
\* requirement argument of __init__
TestCaseMetadata(declaration) ==
    [name |-> declaration.name,
     full_name |-> declaration.qualname,
     requirement |-> declaration.requirement,
     suite |-> None,
     created_with |-> declaration.requirement]

\* _all_suites.get(key): the position of the entry, 0 for None
get_suite(reg, key) ==
    IF \E i \in 1..Len(reg.all_suites) : reg.all_suites[i].key = key
    THEN CHOOSE i \in 1..Len(reg.all_suites) : reg.all_suites[i].key = key
    ELSE 0

\* _all_cases.get(full_name): the position of the entry, 0 for None
get_case(reg, full_name) ==
    IF \E i \in 1..Len(reg.all_cases) : reg.all_cases[i].full_name = full_name
    THEN CHOOSE i \in 1..Len(reg.all_cases) : reg.all_cases[i].full_name = full_name
    ELSE 0

\* add_case_to_suite with a slip: the suite's requirement is copied into a
\* case that has none
add_case_to_suite_Copies(reg, s, c) ==
    [reg EXCEPT !.all_cases[c].suite = reg.all_suites[s].key,
                !.all_cases[c].requirement =
                    IF @ = None THEN reg.all_suites[s].requirement ELSE @,
                !.all_suites[s].cases = Append(@, reg.all_cases[c].full_name)]

\* _add_case_to_suite(test_suite, test_case), for the suite at position s of
\* _all_suites and the case at position c of _all_cases: the case refers to
\* the suite object and the suite's list to the case object
add_case_to_suite(reg, s, c) ==
    [reg EXCEPT !.all_cases[c].suite = reg.all_suites[s].key,
                !.all_suites[s].cases = Append(@, reg.all_cases[c].full_name)]

\* for test_case in _all_cases.values(): if
\* test_case.full_name.startswith(class_prefix): _add_case_to_suite(...),
\* from the case at position c on, in the order of insertion
RECURSIVE add_prefixed_cases(_, _, _, _)
add_prefixed_cases(reg, s, class_prefix, c) ==
    IF c > Len(reg.all_cases) THEN reg
    ELSE add_prefixed_cases(
             IF startswith(reg.all_cases[c].full_name, class_prefix)
             THEN add_case_to_suite(reg, s, c)
             ELSE reg,
             s, class_prefix, c + 1)

\* _add_suite_metadata(metadata): the registry it leaves, and whether it
\* raised LisaException
add_suite_metadata(reg, metadata) ==
    LET key == IF metadata.name # "" THEN metadata.name ELSE metadata.class_name
    IN  IF get_suite(reg, key) = 0
        THEN [registry |->
                  add_prefixed_cases(
                      [reg EXCEPT !.all_suites =
                          Append(@, [key |-> key,
                                     name |-> metadata.name,
                                     class_name |-> metadata.class_name,
                                     area |-> metadata.area,
                                     requirement |-> metadata.requirement,
                                     cases |-> metadata.cases])],
                      Len(reg.all_suites) + 1, key \o ".", 1),
              raised |-> FALSE]
        ELSE [registry |-> reg, raised |-> TRUE]

\* add_case_metadata with a slip: the entry is stored before the test
add_case_metadata_Overwrites(reg, metadata) ==
    LET full_name == metadata.full_name
        c == get_case(reg, full_name)
    IN  IF c = 0
        THEN LET added == [reg EXCEPT !.all_cases = Append(@, metadata)]
                 test_suite == get_suite(added, split_first(full_name))
             IN  [registry |-> IF test_suite # 0
                               THEN add_case_to_suite(added, test_suite, Len(added.all_cases))
                               ELSE added,
                  raised |-> FALSE]
        ELSE [registry |-> [reg EXCEPT !.all_cases[c] = metadata], raised |-> TRUE]

\* _add_case_metadata(metadata): the registry it leaves, and whether it
\* raised LisaException
add_case_metadata(reg, metadata) ==
    LET full_name == metadata.full_name
    IN  IF get_case(reg, full_name) = 0
        THEN LET added == [reg EXCEPT !.all_cases = Append(@, metadata)]
                 test_suite == get_suite(added, split_first(full_name))
             IN  [registry |-> IF test_suite # 0
                               THEN add_case_to_suite(added, test_suite, Len(added.all_cases))
                               ELSE added,
                  raised |-> FALSE]
        ELSE [registry |-> reg, raised |-> TRUE]

\* TestCaseMetadata.__getattr__ after the normal lookup: the attribute of the
\* case at position c of _all_cases when it has one, of the suite it refers
\* to otherwise
getattr_case(reg, c, key) ==
    LET case == reg.all_cases[c]
    IN  IF key = "requirement" /\ case.requirement # None
        THEN case.requirement
        ELSE reg.all_suites[get_suite(reg, case.suite)][key]

\* nothing is registered when the modules of the suites are loaded
InitRegistry ==
    /\ pc = "loading"
    /\ n = 0
    /\ idx = 0
    /\ results = [i \in Cases |-> NewResult("")]
    /\ runtime_data = [i \in Cases |-> [retry |-> 0, ignore_failure |-> FALSE]]
    /\ StartNotCalled
    /\ call = NoCall
    /\ run = 1
    /\ snapshot = NoSnapshot
    /\ registry = EmptyRegistry
    /\ load = NothingLoaded
    /\ check = NoCheck

\* the orchestrator and the records, which loading leaves alone
start_vars == <<pc, n, idx, results, runtime_data, should_stop, is_new,
                is_suite_continue, suite_error_message, is_continue, tries,
                entry, calls, invoked, raised, hook_failed, stop_case>>

\* TestSuiteMetadata.__call__(test_class) for a declared suite
RegisterSuite ==
    /\ pc = "loading"
    /\ Cardinality(load.declared) < MaxRegistrations
    /\ \E declaration \in SuiteDeclarations \ load.declared :
           LET added == add_suite_metadata(registry, TestSuiteMetadata(declaration))
           IN  /\ registry' = added.registry
               /\ load' = [declared |-> load.declared \cup {declaration},
                           raised |-> added.raised]
    /\ UNCHANGED <<start_vars, call, run, snapshot, check>>

\* TestCaseMetadata.__call__(func) for a declared case
RegisterCase ==
    /\ pc = "loading"
    /\ Cardinality(load.declared) < MaxRegistrations
    /\ \E declaration \in CaseDeclarations \ load.declared :
           LET added == add_case_metadata(registry, TestCaseMetadata(declaration))
           IN  /\ registry' = added.registry
               /\ load' = [declared |-> load.declared \cup {declaration},
                           raised |-> added.raised]
    /\ UNCHANGED <<start_vars, call, run, snapshot, check>>

\* suite.requirement = ...: a registered suite is given another requirement
\* object
SetRequirement ==
    /\ pc = "loading"
    /\ \E s \in 1..Len(registry.all_suites) :
           /\ registry.all_suites[s].requirement # "other_requirement"
           /\ registry' = [registry EXCEPT !.all_suites[s].requirement = "other_requirement"]
    /\ load' = [load EXCEPT !.raised = FALSE]
    /\ UNCHANGED <<start_vars, call, run, snapshot, check>>

NextRegistry ==
    \/ RegisterSuite
    \/ RegisterCase
    \/ SetRequirement

SpecRegistry == InitRegistry /\ [][NextRegistry]_vars

\* ------------------------------------------ the getters of the registry
\* what a caller holds of a collection of the registry: nothing; the dict
\* object of the registry itself (alias), whose content is the content of
\* the registry at every moment; or a dict of its own with a content (value)
NotHeld == [held |-> FALSE, alias |-> FALSE, which |-> "all_suites", value |-> <<>>]

\* get_suites_metadata with a slip: a copy of the dict is returned
get_suites_metadata_Copies(reg) ==
    [held |-> TRUE, alias |-> FALSE, which |-> "all_suites", value |-> reg.all_suites]

\* get_suites_metadata(): return _all_suites
get_suites_metadata(reg) ==
    [held |-> TRUE, alias |-> TRUE, which |-> "all_suites", value |-> <<>>]

\* get_cases_metadata(): return _all_cases
get_cases_metadata(reg) ==
    [held |-> TRUE, alias |-> TRUE, which |-> "all_cases", value |-> <<>>]

\* the content of the collection the caller holds
Contents(handle, reg) == IF handle.alias THEN reg[handle.which] ELSE handle.value

\* the entry a caller puts into a collection it was handed: a metadata object
\* that no decorator registered
CallerEntry(which) ==
    IF which = "all_suites"
    THEN [key |-> "Z", name |-> "Z", class_name |-> "Z", area |-> "a0",
          requirement |-> "DEFAULT_REQUIREMENT", cases |-> <<>>]
    ELSE [name |-> "z", full_name |-> "Z.z", requirement |-> None,
          suite |-> None, created_with |-> None]

\* nothing is registered and no caller holds a collection
InitGetters ==
    /\ pc = "loading"
    /\ n = 0
    /\ idx = 0
    /\ results = [i \in Cases |-> NewResult("")]
    /\ runtime_data = [i \in Cases |-> [retry |-> 0, ignore_failure |-> FALSE]]
    /\ StartNotCalled
    /\ call = NoCall
    /\ run = 1
    /\ snapshot = NotHeld
    /\ registry = EmptyRegistry
    /\ load = NothingLoaded
    /\ check = NoCheck

\* suites = get_suites_metadata()
GetSuites ==
    /\ pc = "loading"
    /\ ~snapshot.held
    /\ snapshot' = get_suites_metadata(registry)
    /\ UNCHANGED <<start_vars, call, run, registry, load, check>>

\* cases = get_cases_metadata()
GetCases ==
    /\ pc = "loading"
    /\ ~snapshot.held
    /\ snapshot' = get_cases_metadata(registry)
    /\ UNCHANGED <<start_vars, call, run, registry, load, check>>

\* the caller puts an entry into the collection it holds, suites["Z"] = ... or
\* cases["Z.z"] = ...: the dict object it holds gets the entry
CallerInserts ==
    /\ pc = "loading"
    /\ snapshot.held
    /\ LET entry_ == CallerEntry(snapshot.which)
           content == Contents(snapshot, registry)
       IN  /\ \A i \in 1..Len(content) : content[i] # entry_
           /\ IF snapshot.alias
              THEN /\ registry' = [registry EXCEPT ![snapshot.which] = Append(@, entry_)]
                   /\ UNCHANGED snapshot
              ELSE /\ snapshot' = [snapshot EXCEPT !.value = Append(@, entry_)]
                   /\ UNCHANGED registry
    /\ UNCHANGED <<start_vars, call, run, load, check>>

NextGetters ==
    \/ RegisterSuite
    \/ RegisterCase
    \/ GetSuites
    \/ GetCases
    \/ CallerInserts

SpecGetters == InitGetters /\ [][NextGetters]_vars

\* ------------------------------------- requirements and check_environment
\* the most nodes of an environment
MaxNodes == 2

\* lisa.environment.EnvironmentStatus
EnvironmentStatus == {"Prepared", "Deployed", "Connected"}

\* lisa.operating_system: the base class of each operating system class
Parent ==
    [Ubuntu |-> "Linux", Linux |-> "Posix", Posix |-> "OperatingSystem",
     Windows |-> "OperatingSystem", OperatingSystem |-> "object"]

\* type(node.os) of a node
NodeOs == {"Ubuntu", "Linux", "Windows"}

\* cls.__mro__: the class and its ancestors up to object
RECURSIVE mro(_)
mro(cls) == IF cls = "object" THEN {cls} ELSE {cls} \cup mro(Parent[cls])

\* search_space.SetSpace(is_allow_set, items)
SetSpace(is_allow_set, items) == [is_allow_set |-> is_allow_set, items |-> items]

\* the os_type of a requirement: None, or what create_set_space makes of one
\* supported or one unsupported operating system
OsTypes ==
    {<<>>} \cup {<<SetSpace(TRUE, {os})>> : os \in {"Linux", "Ubuntu", "Windows"}}
           \cup {<<SetSpace(FALSE, {"Windows"})>>}

\* search_space.ResultReason(): a result with no reason against it
ResultReason == [result |-> TRUE, reasons |-> <<>>]

\* SetSpace.check(capability): an allow set asks for one of its items, a
\* set of unsupported items for none of them
SetSpace_check(requirement, capability) ==
    IF requirement.is_allow_set
    THEN IF requirement.items \cap capability.items # {}
         THEN ResultReason ELSE [result |-> FALSE, reasons |-> <<"not supported">>]
    ELSE IF requirement.items \cap capability.items = {}
         THEN ResultReason ELSE [result |-> FALSE, reasons |-> <<"excluded">>]

\* ResultReason.merge(sub_result, name): the conjunction, with the reasons
\* of sub_result under name
merge(check_result, sub_result, name) ==
    [result |-> check_result.result /\ sub_result.result,
     reasons |-> check_result.reasons \o
                     [i \in 1..Len(sub_result.reasons) |->
                          IF name = "" THEN sub_result.reasons[i]
                          ELSE name \o "/" \o sub_result.reasons[i]]]

\* requirement.environment.check(environment.capability): the node counts
\* and features of the environment meet the requirement or not
EnvironmentSpace_check(capable) ==
    IF capable THEN ResultReason ELSE [result |-> FALSE, reasons |-> <<"capability">>]

\* node_os_capability with a slip: the exact class in the place of __mro__
node_os_capability_ExactType(os) == SetSpace(TRUE, {os})

\* SetSpace(is_allow_set=True, items=type(node.os).__mro__)
node_os_capability(os) == SetSpace(TRUE, mro(os))

\* check_nodes with a slip: no break
RECURSIVE check_nodes_NoBreak(_, _, _, _)
check_nodes_NoBreak(check_result, os_type, nodes, i) ==
    IF i > Len(nodes) THEN [check_result |-> check_result, checked |-> i - 1]
    ELSE check_nodes_NoBreak(
             merge(check_result,
                   SetSpace_check(os_type, node_os_capability(nodes[i])), "os_type"),
             os_type, nodes, i + 1)

\* for node in environment.nodes.list(): ... from node i on; checked is
\* history, the number of nodes whose operating system was checked
RECURSIVE check_nodes(_, _, _, _)
check_nodes(check_result, os_type, nodes, i) ==
    IF i > Len(nodes) THEN [check_result |-> check_result, checked |-> i - 1]
    ELSE LET merged == merge(check_result,
                             SetSpace_check(os_type, node_os_capability(nodes[i])),
                             "os_type")
         IN  IF ~merged.result
             THEN [check_result |-> merged, checked |-> i]
             ELSE check_nodes(merged, os_type, nodes, i + 1)

\* check_environment with a slip: the status of the environment is not
\* consulted
check_environment_AnyStatus(check_results, requirement, environment, save_reason) ==
    LET first == EnvironmentSpace_check(environment.capable)
        looped ==
            IF first.result /\ requirement.os_type # <<>>
            THEN check_nodes(first, requirement.os_type[1], environment.nodes, 1)
            ELSE [check_result |-> first, checked |-> 0]
    IN  [result |-> looped.check_result.result,
         checked |-> looped.checked,
         check_results |->
             IF save_reason
             THEN IF check_results # <<>>
                  THEN <<merge(check_results[1], looped.check_result, "")>>
                  ELSE <<looped.check_result>>
             ELSE check_results]

\* TestResult.check_environment(environment, save_reason), for a record
\* whose check_results is check_results: what it returns, what it leaves in
\* self.check_results, and the number of nodes it checked
check_environment(check_results, requirement, environment, save_reason) ==
    LET first == EnvironmentSpace_check(environment.capable)
        looped ==
            IF first.result /\ requirement.os_type # <<>>
                            /\ environment.status = "Connected"
            THEN check_nodes(first, requirement.os_type[1], environment.nodes, 1)
            ELSE [check_result |-> first, checked |-> 0]
    IN  [result |-> looped.check_result.result,
         checked |-> looped.checked,
         check_results |->
             IF save_reason
             THEN IF check_results # <<>>
                  THEN <<merge(check_results[1], looped.check_result, "")>>
                  ELSE <<looped.check_result>>
             ELSE check_results]

\* TestCaseRequirement with a slip: or in the place of and
TestCaseRequirement_Or(environment_status, os_type) ==
    IF environment_status = "Deployed" \/ os_type # <<>>
    THEN [raised |-> TRUE, requirement |-> <<>>]
    ELSE [raised |-> FALSE,
          requirement |-> <<[environment_status |-> environment_status,
                             os_type |-> os_type]>>]

\* TestCaseRequirement(environment_status=..., os_type=...) with its
\* __post_init__: the object, or the LisaException in its place
TestCaseRequirement(environment_status, os_type) ==
    IF environment_status = "Deployed" /\ os_type # <<>>
    THEN [raised |-> TRUE, requirement |-> <<>>]
    ELSE [raised |-> FALSE,
          requirement |-> <<[environment_status |-> environment_status,
                             os_type |-> os_type]>>]

\* the environments a record is checked against
Environments ==
    [status : EnvironmentStatus,
     nodes : UNION {[1..k -> NodeOs] : k \in 0..MaxNodes},
     capable : BOOLEAN]

\* the arguments of the constructor and of check_environment are chosen; the
\* record has no check_results (call.check_results), or those an earlier
\* check saved
InitRequirement ==
    /\ pc = "construct"
    /\ n = 1
    /\ idx = 1
    /\ results = [i \in Cases |-> NewResult("")]
    /\ runtime_data = [i \in Cases |-> [retry |-> 0, ignore_failure |-> FALSE]]
    /\ StartNotCalled
    /\ call \in [environment_status : EnvironmentStatus, os_type : OsTypes,
                  environment : Environments, save_reason : BOOLEAN,
                  check_results : {<<>>, <<[result |-> FALSE, reasons |-> <<"earlier">>]>>}]
    /\ run = 1
    /\ snapshot = NoSnapshot
    /\ registry = EmptyRegistry
    /\ load = NothingLoaded
    /\ check = [NoCheck EXCEPT !.check_results = call.check_results]

\* requirement = TestCaseRequirement(...)
Construct ==
    /\ pc = "construct"
    /\ LET made == TestCaseRequirement(call.environment_status, call.os_type)
       IN  /\ check' = [check EXCEPT !.raised = made.raised,
                                     !.requirement = made.requirement]
           /\ pc' = IF made.raised THEN "raised" ELSE "check_environment"
    /\ UNCHANGED <<n, idx, results, runtime_data, should_stop, is_new,
                   is_suite_continue, suite_error_message, is_continue, tries,
                   entry, calls, invoked, raised, hook_failed, stop_case,
                   call, run, snapshot, registry, load>>

\* case_result.check_environment(environment, save_reason)
CheckEnvironment ==
    /\ pc = "check_environment"
    /\ LET r == check_environment(check.check_results, check.requirement[1],
                                  call.environment, call.save_reason)
       IN  check' = [check EXCEPT !.returned = TRUE,
                                  !.result = r.result,
                                  !.checked = r.checked,
                                  !.check_results = r.check_results]
    /\ pc' = "returned"
    /\ UNCHANGED <<n, idx, results, runtime_data, should_stop, is_new,
                   is_suite_continue, suite_error_message, is_continue, tries,
                   entry, calls, invoked, raised, hook_failed, stop_case,
                   call, run, snapshot, registry, load>>

NextRequirement ==
    \/ Construct
    \/ CheckEnvironment

SpecRequirement == InitRequirement /\ [][NextRequirement]_vars

\* ------------------------------------------- runbook variables, variable.py
\* the most entries of the variable section of a runbook
MaxEntries == 3

\* str.lower(), letter by letter
LowerLetters ==
    [c \in {"A", "B", "C", "D", "E", "F", "G", "H", "I", "J", "K", "L", "M",
            "N", "O", "P", "Q", "R", "S", "T", "U", "V", "W", "X", "Y", "Z"} |->
        CASE c = "A" -> "a" [] c = "B" -> "b" [] c = "C" -> "c" [] c = "D" -> "d"
          [] c = "E" -> "e" [] c = "F" -> "f" [] c = "G" -> "g" [] c = "H" -> "h"
          [] c = "I" -> "i" [] c = "J" -> "j" [] c = "K" -> "k" [] c = "L" -> "l"
          [] c = "M" -> "m" [] c = "N" -> "n" [] c = "O" -> "o" [] c = "P" -> "p"
          [] c = "Q" -> "q" [] c = "R" -> "r" [] c = "S" -> "s" [] c = "T" -> "t"
          [] c = "U" -> "u" [] c = "V" -> "v" [] c = "W" -> "w" [] c = "X" -> "x"
          [] c = "Y" -> "y" [] c = "Z" -> "z"]

LowerChar(c) == IF c \in DOMAIN LowerLetters THEN LowerLetters[c] ELSE c

RECURSIVE lower(_)
lower(text) ==
    IF text = "" THEN ""
    ELSE LowerChar(SubSeq(text, 1, 1)) \o lower(SubSeq(text, 2, Len(text)))

\* _VARIABLE_PATTERN, (\$\(.+?\)), matches at position i of text: "$(", one
\* character or more that is no newline, and the first ")" that follows
MatchAt(text, i) ==
    /\ i + 3 <= Len(text)
    /\ SubSeq(text, i, i + 1) = "$("
    /\ \E j \in (i + 3)..Len(text) :
           /\ SubSeq(text, j, j) = ")"
           /\ \A k \in (i + 2)..(j - 1) : SubSeq(text, k, k) # "\n"

\* the last position of the match at i: the pattern is not greedy
MatchEnd(text, i) ==
    CHOOSE j \in (i + 3)..Len(text) :
        /\ SubSeq(text, j, j) = ")"
        /\ \A k \in (i + 3)..(j - 1) : SubSeq(text, k, k) # ")"

\* the position of the leftmost match at or after from, 0 when there is none
RECURSIVE NextMatch(_, _)
NextMatch(text, from) ==
    IF from + 3 > Len(text) THEN 0
    ELSE IF MatchAt(text, from) THEN from
    ELSE NextMatch(text, from + 1)

\* _VARIABLE_PATTERN.findall(text): the matches from left to right, none
\* overlapping another
RECURSIVE findall(_, _)
findall(text, from) ==
    LET i == NextMatch(text, from)
    IN  IF i = 0 THEN <<>>
        ELSE <<SubSeq(text, i, MatchEnd(text, i))>>
                 \o findall(text, MatchEnd(text, i) + 1)

\* _VARIABLE_PATTERN.sub(lambda matched: str(variables[...lower()].data), text)
RECURSIVE sub(_, _, _)
sub(text, variables, from) ==
    LET i == NextMatch(text, from)
    IN  IF i = 0 THEN SubSeq(text, from, Len(text))
        ELSE SubSeq(text, from, i - 1)
                 \o variables[lower(SubSeq(text, i, MatchEnd(text, i)))].data
                 \o sub(text, variables, MatchEnd(text, i) + 1)

\* a dict of variables is a function from its keys to VariableEntry objects
NoVariables == [key \in {} |-> [data |-> "", is_used |-> FALSE]]

VariableEntry(data) == [data |-> data, is_used |-> FALSE]

\* the names of value that variables does not define, as they are written
get_undefined_variables(value, variables) ==
    LET matches == findall(value, 1)
        Undefined(variable_name) ==
            lower(SubSeq(variable_name, 3, Len(variable_name) - 1))
                \notin DOMAIN variables
    IN  SelectSeq(matches, Undefined)

\* _replace_variables on a str, with the keys replace_variables writes as
\* "$(key)".  used: the keys of the entries it marks is_used; raised: it stops
\* with "cannot find variable"
replace_variables(data, variables) ==
    LET Pattern(key) == "$(" \o key \o ")"
        KeyOf(pattern) == CHOOSE key \in DOMAIN variables : Pattern(key) = pattern
        new_variables ==
            [pattern \in {Pattern(key) : key \in DOMAIN variables}
                 |-> variables[KeyOf(pattern)]]
        lower_name == lower(data)
        matches == findall(data, 1)
        Missing(m) == lower(matches[m]) \notin DOMAIN new_variables
    IN  IF lower_name \in DOMAIN new_variables
        THEN [data |-> new_variables[lower_name].data,
              used |-> {KeyOf(lower_name)}, raised |-> FALSE]
        ELSE IF \E m \in 1..Len(matches) : Missing(m)
        THEN LET first == CHOOSE m \in 1..Len(matches) :
                              Missing(m) /\ \A k \in 1..(m - 1) : ~Missing(k)
             IN  [data |-> data,
                  used |-> {KeyOf(lower(matches[k])) : k \in 1..(first - 1)},
                  raised |-> TRUE]
        ELSE [data |-> sub(data, new_variables, 1),
              used |-> {KeyOf(lower(matches[m])) : m \in 1..Len(matches)},
              raised |-> FALSE]

\* entry.is_used = True on the entries of keys
MarkUsed(variables, keys) ==
    [key \in DOMAIN variables |->
        IF key \in keys THEN [variables[key] EXCEPT !.is_used = TRUE]
        ELSE variables[key]]

\* _add_variable of a variable that is no secret
add_variable(key, value, current_variables) ==
    (lower(key) :> VariableEntry(value)) @@ current_variables

\* load_from_variable_entry of a raw value that is a str
load_from_variable_entry(name, raw_value) ==
    add_variable(name, raw_value, NoVariables)

\* the variable files beside the runbook, as yaml.safe_load reads them: a
\* sequence of pairs of a key and a raw value
VariableFiles ==
    [file_name \in {"1.yml", "2.yml", "9.yml"} |->
        IF file_name = "1.yml" THEN <<<<"X", "7">>>>
        ELSE IF file_name = "2.yml" THEN <<<<"X", "8">>>>
        ELSE <<<<"X", "9">>>>]

RECURSIVE load_pairs(_, _)
load_pairs(raw_variables, results_) ==
    IF raw_variables = <<>> THEN results_
    ELSE load_pairs(Tail(raw_variables),
                    load_from_variable_entry(Head(raw_variables)[1],
                                             Head(raw_variables)[2]) @@ results_)

\* _load_from_file: raised holds the message of the exception it stops with
load_from_file(file_name) ==
    LET suffix == IF Len(file_name) >= 4
                  THEN SubSeq(file_name, Len(file_name) - 3, Len(file_name))
                  ELSE ""
        long_suffix == IF Len(file_name) >= 5
                       THEN SubSeq(file_name, Len(file_name) - 4, Len(file_name))
                       ELSE ""
    IN  IF lower(suffix) # ".yml" /\ lower(long_suffix) # ".yaml"
        THEN [raised |-> "variable support only yaml and yml",
              results |-> NoVariables]
        ELSE IF file_name \notin DOMAIN VariableFiles
        THEN [raised |-> "cannot find variable file", results |-> NoVariables]
        ELSE [raised |-> "",
              results |-> load_pairs(VariableFiles[file_name], NoVariables)]

\* the entries a runbook can list, as schema.Variable loads them; none is a
\* secret
Variable(file, name, value) == [file |-> file, name |-> name, value |-> value]

VariableEntries ==
    {Variable("", "a", "$(b)"),
     Variable("", "b", "1"),
     Variable("", "B", "2"),
     Variable("", "c", "$(a)-$(B)"),
     Variable("", "d", "$(d)"),
     Variable("", "e", "$(f)"),
     Variable("", "f", "$(e)"),
     Variable("", "g", "$(u)"),
     Variable("$(b).yml", "", "")}

\* the variables of the command line or of a parent runbook
HigherLevels ==
    {NoVariables,
     ("u" :> VariableEntry("h")),
     ("b" :> VariableEntry("9"))}

\* the variable sections: lists of distinct entries
Runbooks ==
    {entries \in UNION {[1..k -> VariableEntries] : k \in 0..MaxEntries} :
        \A i, j \in 1..Len(entries) : entries[i] = entries[j] => i = j}

\* left_variables.remove(entry): the first element equal to entry goes.
\* left_variables holds the positions of the entries in the section
remove(left_variables, variable_entries, entry_) ==
    LET first == CHOOSE k \in 1..Len(left_variables) :
                     /\ variable_entries[left_variables[k]] = entry_
                     /\ \A m \in 1..(k - 1) :
                            variable_entries[left_variables[m]] # entry_
    IN  SubSeq(left_variables, 1, first - 1)
            \o SubSeq(left_variables, first + 1, Len(left_variables))

\* the body of the for loop for the entry at position e.  The VariableEntry
\* objects of higher_level_variables are the ones current_variables holds for
\* their keys, so a mark on one is a mark on the other.
\* resolved_in: history, the pass that loaded the entry, 0 for none
for_body(s, e) ==
    LET entry_ == s.variable_entries[e]
        checked_value == entry_.file \o entry_.value
        current_undefined_variables ==
            get_undefined_variables(checked_value, s.current_variables)
        replaced == replace_variables(IF entry_.file # "" THEN entry_.file
                                      ELSE entry_.value, s.current_variables)
        loaded == IF entry_.file # "" THEN load_from_file(replaced.data)
                  ELSE [raised |-> "",
                        results |-> load_from_variable_entry(entry_.name,
                                                             replaced.data)]
        marked == MarkUsed(s.current_variables, replaced.used)
        higher == MarkUsed(s.higher_level_variables, replaced.used)
    IN  IF current_undefined_variables # <<>>
        THEN [s EXCEPT !.undefined_variables = @ \o current_undefined_variables]
        ELSE IF replaced.raised
        THEN [s EXCEPT !.current_variables = marked,
                       !.higher_level_variables = higher,
                       !.error = "cannot find variable"]
        ELSE IF loaded.raised # ""
        THEN [s EXCEPT !.current_variables = marked,
                       !.higher_level_variables = higher,
                       !.error = loaded.raised]
        ELSE [s EXCEPT !.current_variables = higher @@ (loaded.results @@ marked),
                       !.higher_level_variables = higher,
                       !.is_current_updated = TRUE,
                       !.left_variables = remove(@, s.variable_entries, entry_),
                       !.resolved_in[e] = s.passes]

\* for entry in left_variables.copy(); an exception ends the loop
RECURSIVE for_entries(_, _)
for_entries(s, copy) ==
    IF copy = <<>> \/ s.error # "" THEN s
    ELSE for_entries(for_body(s, Head(copy)), Tail(copy))

\* the while loop without undefined_variables = [] at the start of a pass: the
\* names an earlier pass found undefined stay in the list
while_body_KeepsUndefined(s) ==
    for_entries([s EXCEPT !.is_current_updated = FALSE,
                          !.passes = @ + 1],
                s.left_variables)

\* one iteration of the while loop.  passes: history, the iterations so far
while_body(s) ==
    for_entries([s EXCEPT !.is_current_updated = FALSE,
                          !.undefined_variables = <<>>,
                          !.passes = @ + 1],
                s.left_variables)

\* the condition of the while loop
while_test(s) == s.left_variables # <<>> /\ s.is_current_updated

\* the locals of _load_from_runbook before the while loop
before_while(variable_entries, higher_level_variables) ==
    [variable_entries |-> variable_entries,
     higher_level_variables |-> higher_level_variables,
     current_variables |-> higher_level_variables,
     left_variables |-> [i \in 1..Len(variable_entries) |-> i],
     undefined_variables |-> <<>>,
     is_current_updated |-> TRUE,
     passes |-> 0,
     resolved_in |-> [i \in 1..Len(variable_entries) |-> 0],
     error |-> ""]

RECURSIVE while_loop(_)
while_loop(s) ==
    IF while_test(s) /\ s.error = "" THEN while_loop(while_body(s)) ELSE s

\* the statements after the while loop: the message of the exception the
\* call raises, "" when it returns current_variables
after_while(s) ==
    IF s.undefined_variables # <<>> THEN "variables are undefined" ELSE ""

\* _load_from_runbook of a runbook whose variable section is variable_entries
load_from_runbook(variable_entries, higher_level_variables) ==
    LET s == while_loop(before_while(variable_entries, higher_level_variables))
    IN  [raised |-> IF s.error # "" THEN s.error ELSE after_while(s),
         current_variables |-> s.current_variables,
         higher_level_variables |-> s.higher_level_variables,
         resolved_in |-> s.resolved_in]

\* a call of _load_from_runbook.  runbook_data: <<>> for a runbook without a
\* variable section, else the tuple of the list of its entries; locals: the
\* locals of the call and the objects of its argument higher_level_variables
InitVariables ==
    /\ pc = "load_from_runbook"
    /\ n = 0
    /\ idx = 0
    /\ results = [i \in Cases |-> NewResult("")]
    /\ runtime_data = [i \in Cases |-> [retry |-> 0, ignore_failure |-> FALSE]]
    /\ StartNotCalled
    /\ \E runbook_data \in {<<>>} \cup {<<entries>> : entries \in Runbooks},
          higher_level_variables \in HigherLevels :
           call = [runbook_data |-> runbook_data,
                   locals |-> before_while(<<>>, higher_level_variables)]
    /\ run = 1
    /\ snapshot = NoSnapshot
    /\ registry = EmptyRegistry
    /\ load = NothingLoaded
    /\ check = NoCheck

\* current_variables = higher_level_variables.copy() and the test of
\* constants.VARIABLE in runbook_data
EnterLoad ==
    /\ pc = "load_from_runbook"
    /\ IF call.runbook_data # <<>>
       THEN /\ call' = [call EXCEPT !.locals =
                            before_while(call.runbook_data[1],
                                         @.higher_level_variables)]
            /\ pc' = "while"
       ELSE /\ pc' = "returned"
            /\ UNCHANGED call
    /\ UNCHANGED <<n, idx, results, runtime_data, should_stop, is_new,
                   is_suite_continue, suite_error_message, is_continue, tries,
                   entry, calls, invoked, raised, hook_failed, stop_case, rest>>

\* one iteration of the while loop, the whole for loop in it
WhilePass ==
    /\ pc = "while"
    /\ while_test(call.locals)
    /\ call' = [call EXCEPT !.locals = while_body(@)]
    /\ pc' = IF call'.locals.error # "" THEN "raised" ELSE "while"
    /\ UNCHANGED <<n, idx, results, runtime_data, should_stop, is_new,
                   is_suite_continue, suite_error_message, is_continue, tries,
                   entry, calls, invoked, raised, hook_failed, stop_case, rest>>

\* the while loop ends; the call raises or returns current_variables
WhileEnd ==
    /\ pc = "while"
    /\ ~while_test(call.locals)
    /\ call' = [call EXCEPT !.locals.error = after_while(call.locals)]
    /\ pc' = IF call'.locals.error # "" THEN "raised" ELSE "returned"
    /\ UNCHANGED <<n, idx, results, runtime_data, should_stop, is_new,
                   is_suite_continue, suite_error_message, is_continue, tries,
                   entry, calls, invoked, raised, hook_failed, stop_case, rest>>

NextVariables ==
    \/ EnterLoad
    \/ WhilePass
    \/ WhileEnd

SpecVariables == InitVariables /\ [][NextVariables]_vars

\* ------------------------------------------------------------- type check
TypeOK ==
    /\ pc \in {"idle", "before_suite", "for", "before_case", "run_case",
               "after_case", "loop_check", "after_suite", "done",
               "handle_exception", "returned", "set_status", "loading",
               "construct", "check_environment", "raised",
               "load_from_runbook", "while"}
    /\ n \in 0..NumCases
    /\ idx \in 0..n
    /\ \A i \in Cases : results[i].status \in TestStatus
    /\ tries \in 0..(MaxRetry + 1)
    /\ calls.attempts \in 0..(MaxRetry + 1)
    /\ stop_case \in 0..(NumCases + 1)
    /\ run \in 1..2
    /\ Cardinality(load.declared) <= MaxRegistrations
    /\ check.checked \in 0..MaxNodes

\* ------------------------------------------------- vocabulary of the claims
Terminal == {"PASSED", "FAILED", "SKIPPED", "ATTEMPTED"}

\* the case records handed to start
Records == 1..n

\* the text the run has added to the message log of record i, after what the
\* log held on entry and the newline that separates the two
Added(i) ==
    LET old == entry[i].message
        new == results[i].message
    IN  IF old = "" THEN new
        ELSE IF Len(new) > Len(old) + 1 THEN SubSeq(new, Len(old) + 2, Len(new))
        ELSE ""

\* the message log of record i still starts with what it held on entry
KeepsEntryLog(i) ==
    LET old == entry[i].message
        new == results[i].message
    IN  /\ Len(new) >= Len(old)
        /\ SubSeq(new, 1, Len(old)) = old
        /\ Len(new) > Len(old) /\ old # "" => SubSeq(new, Len(old) + 1, Len(old) + 1) = "\n"

StartsWith(text, prefix) ==
    Len(text) >= Len(prefix) /\ SubSeq(text, 1, Len(prefix)) = prefix

EndsWith(text, suffix) ==
    Len(text) >= Len(suffix)
        /\ SubSeq(text, Len(text) - Len(suffix) + 1, Len(text)) = suffix

\* the for loop of start reaches record i: no stop() came before the end of
\* the iteration of an earlier record
Reached(i) == stop_case = 0 \/ i <= stop_case

\* start has not touched record i
Untouched(i) == results[i] = entry[i] /\ invoked[i] = {}

\* the retry_call of hook for the record in process has ended and no later
\* retry_call has begun
Ended(hook) ==
    /\ calls.hook = hook
    /\ \/ hook = "before_case" /\ pc \in {"run_case", "after_case"}
       \/ hook = "body" /\ pc = "after_case"
       \/ hook = "after_case" /\ pc = "loop_check"

\* ----------------------------------------------------------------------- C1
\* C1 as stated: when before_suite raises, every case record of the list ends
\* SKIPPED with the suite-level error text, before_case and the body are
\* invoked for no record, and after_suite is invoked exactly once.
C1_AllSkipped ==
    (pc = "done" /\ hook_failed.before_suite) =>
        /\ \A i \in Records :
               /\ results[i].status = "SKIPPED"
               /\ Added(i) = suite_error_message
               /\ invoked[i] \cap {"before_case", "body"} = {}
        /\ StartsWith(suite_error_message, "before_suite: ")
        /\ calls.after_suite = 1

\* C1 amended: when before_suite raises, every case record the loop reaches
\* (all of them when stop() is not called before the iteration of the last
\* record) ends SKIPPED with the suite-level error text "before_suite: ..."
\* added to its log, the records after the one in process at stop() are left
\* as they were, before_case and the body are invoked for no record, and
\* after_suite is invoked exactly once.
C1_ReachedSkipped ==
    (pc = "done" /\ hook_failed.before_suite) =>
        /\ \A i \in Records :
               /\ invoked[i] \cap {"before_case", "body"} = {}
               /\ IF Reached(i)
                  THEN /\ results[i].status = "SKIPPED"
                       /\ Added(i) = suite_error_message
                       /\ KeepsEntryLog(i)
                       /\ invoked[i] = {"after_case"}
                  ELSE Untouched(i)
        /\ StartsWith(suite_error_message, "before_suite: ")
        /\ calls.after_suite = 1

\* before_suite raised, no stop(), and both of two records ended SKIPPED, one
\* of them with an earlier log
C1_Witness ==
    /\ pc = "done"
    /\ hook_failed.before_suite
    /\ stop_case = 0
    /\ n >= 2
    /\ \A i \in Records : results[i].status = "SKIPPED"
    /\ entry[1].message # ""
    /\ suite_error_message = "before_suite: boom"

\* ----------------------------------------------------------------------- C2
\* the retry value of the record in process
Retry == runtime_data[idx].retry

\* the attempts of the body that raised, for the record in process once the
\* retry_call of the body has ended: all of them when an exception left the
\* retry_call, all but the last when it returned
BodyRaises ==
    IF raised.body[idx].raises THEN calls.attempts ELSE calls.attempts - 1

\* C2 as stated: a body that raises on its first k attempts and then returns
\* is invoked exactly min(k+1, r+1) times, and the status is PASSED exactly
\* when k <= r.
C2_PassedIffWithinRetry ==
    Ended("body") =>
        /\ calls.attempts = Min(BodyRaises + 1, Retry + 1)
        /\ results[idx].status = "PASSED" <=> BodyRaises <= Retry

\* C2 amended: the body is invoked exactly min(k+1, r+1) times; when k <= r
\* the status is PASSED; when k > r the status is the one handle_exception
\* gives the exception of attempt r+1, which is PASSED only for the
\* pass-with-warning signal.
C2_BoundedRetry ==
    Ended("body") =>
        /\ calls.attempts = Min(BodyRaises + 1, Retry + 1)
        /\ BodyRaises <= Retry => results[idx].status = "PASSED"
        /\ BodyRaises > Retry =>
               (results[idx].status = "PASSED"
                    <=> isinstance(raised.body[idx], "PassedException"))

\* the body raised on its first r attempts, r >= 1, and returned on attempt
\* r+1: PASSED after r+1 invocations
C2_Witness ==
    /\ Ended("body")
    /\ Retry >= 1
    /\ calls.attempts = Retry + 1
    /\ ~raised.body[idx].raises
    /\ results[idx].status = "PASSED"

\* ----------------------------------------------------------------------- C3
\* C3: handle_exception classifies with a fixed precedence: an instance of
\* the skip signal gives SKIPPED; otherwise an instance of the keep-not-run
\* signal gives NOTRUN; otherwise an instance of the pass-with-warning signal
\* gives PASSED and the log ends with "warning: " and the warning text;
\* otherwise the status is ATTEMPTED with ignore_failure and FAILED without.
\* ignore_failure has no part in the outcome of the three signals.
C3_Precedence ==
    pc = "returned" =>
        LET e == call.exception
            r == results[1]
            skip == isinstance(e, "SkippedException")
            notrun == isinstance(e, "NotRunException")
            passed == isinstance(e, "PassedException")
        IN  /\ skip => r.status = "SKIPPED"
            /\ ~skip /\ notrun => r.status = "NOTRUN"
            /\ ~skip /\ ~notrun /\ passed =>
                   /\ r.status = "PASSED"
                   /\ EndsWith(r.message, "warning: " \o e.text)
            /\ ~skip /\ ~notrun /\ ~passed =>
                   r.status = IF runtime_data[1].ignore_failure THEN "ATTEMPTED" ELSE "FAILED"

\* an exception that is both a keep-not-run and a pass-with-warning signal,
\* on a record with ignore_failure, was classified NOTRUN
C3_Witness ==
    /\ pc = "returned"
    /\ call.exception.classes = {"NotRunException", "PassedException"}
    /\ runtime_data[1].ignore_failure
    /\ entry[1].status = "RUNNING"
    /\ results[1].status = "NOTRUN"

\* ----------------------------------------------------------------------- C4
\* C4: when the exception that leaves the retry_call of the body is the skip
\* signal, the record is SKIPPED from then on and the text added to its
\* message log is "skipped: " followed by the detail of the signal.
C4_SkipSignal ==
    \A i \in Records :
        (raised.body[i].raises /\ isinstance(raised.body[i], "SkippedException")) =>
            /\ results[i].status = "SKIPPED"
            /\ Added(i) = "skipped: " \o raised.body[i].text
            /\ KeepsEntryLog(i)
            /\ {"before_case", "body"} \subseteq invoked[i]

\* start returned with a record whose body raised the skip signal on the
\* last of its two attempts, and whose log held an earlier text
C4_Witness ==
    /\ pc = "done"
    /\ n >= 1
    /\ runtime_data[1].retry = 1
    /\ isinstance(raised.body[1], "SkippedException")
    /\ entry[1].message # ""
    /\ results[1].status = "SKIPPED"
    /\ results[1].message = "notrun: earlier\nskipped: boom"

\* ----------------------------------------------------------------------- C5
\* C5: a record with ignore_failure never holds FAILED at any step of the
\* run, and when the exception that leaves the retry_call of its body is a
\* generic error its status is ATTEMPTED from then on.
C5_IgnoreFailure ==
    \A i \in Records :
        runtime_data[i].ignore_failure =>
            /\ results[i].status # "FAILED"
            /\ \A k \in 1..Len(results[i].sent) : results[i].sent[k].status # "FAILED"
            /\ (raised.body[i].raises /\ raised.body[i].classes = {}) =>
                   results[i].status = "ATTEMPTED"

\* with ignore_failure and retry 1 the body raised a generic error on its
\* two attempts and the record is ATTEMPTED
C5_Witness ==
    /\ Ended("body")
    /\ runtime_data[idx].ignore_failure
    /\ Retry >= 1
    /\ calls.attempts = Retry + 1
    /\ raised.body[idx].raises
    /\ raised.body[idx].classes = {}
    /\ results[idx].status = "ATTEMPTED"

\* ----------------------------------------------------------------------- C6
\* C6: the stop signal is observed only at the end of a case iteration.  When
\* stop() is first called before or while record s is in process, no record
\* after s is ever touched (no hook invoked for it, status NOTRUN as on
\* entry), and when start returns every record up to s has had its
\* iteration in full (before_case unless before_suite failed, the body
\* unless before_case failed, and after_case) and after_suite has been
\* invoked exactly once.
C6_StopAdvisory ==
    stop_case \in Records =>
        /\ \A j \in Records :
               j > stop_case => Untouched(j) /\ results[j].status = "NOTRUN"
        /\ pc = "done" =>
               /\ calls.after_suite = 1
               /\ idx = stop_case
               /\ \A j \in 1..stop_case :
                      /\ "after_case" \in invoked[j]
                      /\ ~hook_failed.before_suite => "before_case" \in invoked[j]
                      /\ "before_case" \in invoked[j] =>
                             \/ "body" \in invoked[j]
                             \/ /\ results[j].status = "SKIPPED"
                                /\ StartsWith(Added(j), "before_case: ")

\* stop() was called while the first of two records was in process: its
\* three hooks ran, the second record is NOTRUN, after_suite ran
C6_Witness ==
    /\ pc = "done"
    /\ n >= 2
    /\ stop_case = 1
    /\ invoked[1] = {"before_case", "body", "after_case"}
    /\ results[1].status \in Terminal
    /\ results[2].status = "NOTRUN"
    /\ invoked[2] = {}
    /\ calls.after_suite = 1

\* ----------------------------------------------------------------------- C7
\* C7 as stated: every status change follows NOTRUN -> RUNNING -> {PASSED,
\* FAILED, SKIPPED, ATTEMPTED}.
C7_Graph ==
    [][\A i \in Cases :
           LET old == results[i].status
               new == results'[i].status
           IN  old # new =>
                   \/ old = "NOTRUN" /\ new = "RUNNING"
                   \/ old = "RUNNING" /\ new \in Terminal]_vars

\* C7 amended: every status change follows NOTRUN -> RUNNING -> {PASSED,
\* FAILED, SKIPPED, ATTEMPTED, NOTRUN}: RUNNING is entered only from NOTRUN
\* and is left to a terminal status or, when the keep-not-run signal leaves
\* the retry_call of the body, back to NOTRUN; a record that holds a terminal
\* status, or that went back to NOTRUN, is not changed by any later step.
C7_GraphWithNotRun ==
    [][\A i \in Cases :
           LET old == results[i].status
               new == results'[i].status
           IN  old # new =>
                   \/ /\ old = "NOTRUN" /\ new = "RUNNING"
                      /\ results[i] = entry[i]
                   \/ old = "RUNNING" /\ new \in Terminal
                   \/ /\ old = "RUNNING" /\ new = "NOTRUN"
                      /\ i = idx
                      /\ pc = "run_case"
                      /\ isinstance(raised'.body[i], "NotRunException")]_vars

\* a record went NOTRUN -> RUNNING -> NOTRUN, another NOTRUN -> RUNNING ->
\* PASSED
C7_Witness ==
    /\ pc = "done"
    /\ n >= 2
    /\ Len(results[1].sent) = 3
    /\ results[1].sent[2].status = "RUNNING"
    /\ results[1].sent[3].status = "NOTRUN"
    /\ Len(results[2].sent) = 3
    /\ results[2].sent[2].status = "RUNNING"
    /\ results[2].sent[3].status = "PASSED"

\* ----------------------------------------------------------------------- C8
\* C8: no attempt of after_case, returning or raising, changes the status or
\* the message log of any record, and after an attempt start goes on: to the
\* next attempt, or to the end of the iteration.
C8_AfterCaseFrame ==
    [][pc = "after_case" =>
           /\ results' = results
           /\ pc' \in {"after_case", "loop_check"}
           /\ pc' = "loop_check" =>
                  (hook_failed'.after_case => calls'.attempts = Retry + 1)]_vars

\* after_case raised on its two attempts for a record that had PASSED
C8_Witness ==
    /\ Ended("after_case")
    /\ hook_failed.after_case
    /\ Retry >= 1
    /\ calls.attempts = Retry + 1
    /\ results[idx].status = "PASSED"
    /\ results[idx].message = entry[idx].message

\* ----------------------------------------------------------------------- C9
\* C9: when before_suite succeeded and an exception of any kind leaves the
\* retry_call of before_case, the record is SKIPPED, the text added to its
\* log is "before_case: " followed by the text of that exception, the body
\* is not invoked for the record, and before_case was invoked exactly
\* retry + 1 times.
C9_BeforeCaseFailure ==
    raised.before_case.raises =>
        /\ ~hook_failed.before_suite
        /\ pc \in {"after_case", "loop_check"}
        /\ results[idx].status = "SKIPPED"
        /\ Added(idx) = "before_case: " \o raised.before_case.text
        /\ KeepsEntryLog(idx)
        /\ "body" \notin invoked[idx]
        /\ ~raised.body[idx].raises
        /\ calls.hook = "before_case" => calls.attempts = Retry + 1

\* before_case raised the pass-with-warning signal on the last of its two
\* attempts: SKIPPED, not PASSED
C9_Witness ==
    /\ Ended("before_case")
    /\ pc = "after_case"
    /\ Retry >= 1
    /\ calls.attempts = Retry + 1
    /\ raised.before_case.classes = {"PassedException"}
    /\ results[idx].status = "SKIPPED"
    /\ Added(idx) = "before_case: boom"

\* ---------------------------------------------------------------------- C10
\* C10: after_suite has been invoked exactly once when start returns and not
\* before the loop has ended; it is invoked once, not retried, whether it
\* returns or raises; its invocation changes no record and start returns
\* after it; nothing is invoked after it.
C10_AfterSuiteOnce ==
    [][/\ calls'.after_suite = IF pc' = "done" THEN 1 ELSE 0
       /\ calls'.after_suite # calls.after_suite =>
              /\ pc = "after_suite"
              /\ results' = results
              /\ invoked' = invoked
       /\ pc = "after_suite" /\ pc' # "after_suite" => pc' = "done"
       /\ pc = "done" => UNCHANGED <<calls, invoked, results>>]_vars

\* start returned after a failed before_suite, an early stop and a raising
\* after_suite
C10_Witness ==
    /\ pc = "done"
    /\ n >= 2
    /\ hook_failed.before_suite
    /\ stop_case = 1
    /\ hook_failed.after_suite
    /\ calls.after_suite = 1
    /\ results[1].status = "SKIPPED"

\* ------------------------------------------------------------------- C11
\* the result messages the last direct call of set_status handed to the
\* notifier
Emitted == SubSeq(results[1].sent, Len(snapshot.sent) + 1, Len(results[1].sent))

\* message is what a result message carries of the log: the log itself, or
\* its first MaxMessageLen characters when it is longer
Carries(message, log) ==
    IF Len(log) <= MaxMessageLen
    THEN message = log
    ELSE Len(message) = MaxMessageLen /\ StartsWith(log, message)

\* C11 as stated: every call of set_status, also one whose new status is the
\* current status, hands one result message with the record's status and
\* message to the notifier
C11_EveryCallEmits ==
    call.number > 0 =>
        /\ Len(Emitted) = 1
        /\ Emitted[1].status = results[1].status
        /\ Carries(Emitted[1].message, results[1].message)

\* C11 amended: a call of set_status that changes the status hands exactly
\* one result message to the notifier, with the new status and the message
\* log (its first 2048 characters); a call whose new status is the current
\* status hands none, also when it added text to the log
C11_EmitsOnChange ==
    call.number > 0 =>
        IF snapshot.status # call.new_status
        THEN /\ Len(Emitted) = 1
             /\ Emitted[1].status = call.new_status
             /\ Emitted[1].status = results[1].status
             /\ Carries(Emitted[1].message, results[1].message)
        ELSE /\ Emitted = <<>>
             /\ results[1].status = snapshot.status

\* both cases have happened to one record: a call that changed the status of
\* a record with a log longer than the cut, then a call with the status the
\* record has, which added text and sent nothing
C11_Witness ==
    /\ pc = "set_status"
    /\ call.number = 2
    /\ call.repeated
    /\ call.message = "m"
    /\ snapshot.status = call.new_status
    /\ results[1].message # snapshot.message
    /\ Len(results[1].message) > MaxMessageLen
    /\ Len(results[1].sent) = 2

\* ------------------------------------------------------------------- C12
\* C12: a call of set_status with an empty message that repeats the status
\* of the call before it leaves the status and the message log as they were
\* and creates no timer
C12_Idempotent ==
    (call.repeated /\ call.message = "") =>
        /\ results[1].status = snapshot.status
        /\ results[1].message = snapshot.message
        /\ results[1].timers = snapshot.timers

\* RUNNING was set twice with an empty message: one timer, created by the
\* first of the two calls
C12_Witness ==
    /\ pc = "set_status"
    /\ call.repeated
    /\ call.message = ""
    /\ call.new_status = "RUNNING"
    /\ results[1].timers = 1
    /\ call.number = 2

\* ------------------------------------------------------------------- C13
\* the declaration whose decorator the step applies names a suite, or a
\* case, that the registry holds already
AlreadyRegistered(declaration) ==
    IF "class_name" \in DOMAIN declaration
    THEN get_suite(registry, TestSuiteMetadata(declaration).name) # 0
    ELSE get_case(registry, declaration.qualname) # 0

\* C13: registering a suite whose name, or a case whose full name, is
\* registered already raises, and a registration that raises leaves
\* _all_suites, _all_cases and every suite's case list as they were
C13_DuplicateRejected ==
    [][\A declaration \in load'.declared \ load.declared :
           /\ AlreadyRegistered(declaration) => load'.raised
           /\ load'.raised => registry' = registry]_vars

\* a second suite A and a second case A.c were both turned down, with the
\* first case A.c attached to the first suite A
C13_Witness ==
    /\ pc = "loading"
    /\ load.raised
    /\ Cardinality(load.declared) = 4
    /\ Len(registry.all_suites) = 1
    /\ Len(registry.all_cases) = 1
    /\ registry.all_suites[1].cases = <<"A.c">>

\* ------------------------------------------------------------------- C14
RECURSIVE RegisterSuites(_, _, _)
RegisterSuites(reg, suites, i) ==
    IF i > Len(suites) THEN reg
    ELSE RegisterSuites(
             add_suite_metadata(reg, [suites[i] EXCEPT !.cases = <<>>]).registry,
             suites, i + 1)

RECURSIVE RegisterCases(_, _, _)
RegisterCases(reg, cases, i) ==
    IF i > Len(cases) THEN reg
    ELSE RegisterCases(
             add_case_metadata(reg, [cases[i] EXCEPT !.suite = None]).registry,
             cases, i + 1)

\* the registry that holds the same suites and cases, registered in another
\* order: every suite before every case
SuitesFirst ==
    RegisterCases(RegisterSuites(EmptyRegistry, registry.all_suites, 1),
                  registry.all_cases, 1)

\* the set of cases in each suite's case list, and the suite of each case
Attachment(reg) ==
    [lists |-> {<<reg.all_suites[s].key,
                  {reg.all_suites[s].cases[j] : j \in 1..Len(reg.all_suites[s].cases)}>> :
                    s \in 1..Len(reg.all_suites)},
     owners |-> {<<reg.all_cases[c].full_name, reg.all_cases[c].suite>> :
                    c \in 1..Len(reg.all_cases)}]

\* C14 as stated: whatever the order in which the suites and cases of the
\* registry were registered, each suite lists the cases and each case has
\* the suite that they have when every suite is registered before every case
C14_OrderIndependent == Attachment(registry) = Attachment(SuitesFirst)

\* ------------------------------------------------------------------- C15
\* C15 as stated: the full name of every case in the case list of a
\* registered suite is "<suite name>.<case short name>"
C15_FullName ==
    \A s \in 1..Len(registry.all_suites) :
        \A j \in 1..Len(registry.all_suites[s].cases) :
            LET suite == registry.all_suites[s]
                case == registry.all_cases[get_case(registry, suite.cases[j])]
            IN  case.full_name = suite.name \o "." \o case.name

\* ------------------------------------------------------------------- C16
\* the cases that refer to a suite
AttachedCases == {c \in 1..Len(registry.all_cases) : registry.all_cases[c].suite # None}

\* the suite object the case at position c refers to
SuiteOf(c) == registry.all_suites[get_suite(registry, registry.all_cases[c].suite)]

\* C16: an attached case created without a requirement reports the
\* requirement its suite has now, an attached case created with a
\* requirement reports that one, and every attached case reports the area of
\* its suite
C16_Delegation ==
    \A c \in AttachedCases :
        /\ registry.all_cases[c].created_with = None =>
               getattr_case(registry, c, "requirement") = SuiteOf(c).requirement
        /\ registry.all_cases[c].created_with # None =>
               getattr_case(registry, c, "requirement") = registry.all_cases[c].created_with
        /\ getattr_case(registry, c, "area") = SuiteOf(c).area

\* a case without a requirement and a case with one are attached, and the
\* suite of each was given another requirement after the case was attached
C16_Witness ==
    /\ pc = "loading"
    /\ \E c \in AttachedCases :
           /\ registry.all_cases[c].created_with = None
           /\ SuiteOf(c).requirement = "other_requirement"
           /\ SuiteOf(c).area = "a1"
    /\ \E c \in AttachedCases :
           /\ registry.all_cases[c].created_with = "case_requirement"
           /\ SuiteOf(c).requirement = "other_requirement"

\* ------------------------------------------------------------------- C17
\* cls is base or a class derived from it
RECURSIVE IsSubtype(_, _)
IsSubtype(cls, base) ==
    \/ cls = base
    \/ cls \in DOMAIN Parent /\ IsSubtype(Parent[cls], base)

\* check_environment has returned for a connected environment that has the
\* capability the requirement asks for
CheckedConnected ==
    /\ check.returned
    /\ call.environment.status = "Connected"
    /\ call.environment.capable

\* C17: on a connected environment whose capability check passes, a
\* requirement that allows one operating system class is met exactly when
\* the class of every node is that class or derives from it
C17_Hierarchy ==
    \A base \in {"Linux", "Ubuntu", "Windows"} :
        (CheckedConnected /\ call.os_type = <<SetSpace(TRUE, {base})>>) =>
            (check.result <=>
                \A i \in 1..Len(call.environment.nodes) :
                    IsSubtype(call.environment.nodes[i], base))

\* requirement Linux was met by an environment of one Ubuntu node
C17_Witness ==
    /\ CheckedConnected
    /\ call.os_type = <<SetSpace(TRUE, {"Linux"})>>
    /\ call.environment.nodes = <<"Ubuntu">>
    /\ check.result
    /\ check.checked = 1

\* ------------------------------------------------------------------- C18
\* C18: the constructor raises exactly for Deployed together with an os_type,
\* and the object it makes otherwise has the status and the os_type it was
\* given; no requirement object is Deployed with an os_type
C18_DeployedWithoutOs ==
    pc # "construct" =>
        /\ check.raised <=> (call.environment_status = "Deployed" /\ call.os_type # <<>>)
        /\ check.raised => check.requirement = <<>>
        /\ ~check.raised =>
               /\ Len(check.requirement) = 1
               /\ check.requirement[1].environment_status = call.environment_status
               /\ check.requirement[1].os_type = call.os_type
        /\ \A i \in 1..Len(check.requirement) :
               ~(check.requirement[i].environment_status = "Deployed"
                     /\ check.requirement[i].os_type # <<>>)

\* the constructor has raised for Deployed with os_type Linux
C18_Witness ==
    /\ pc = "raised"
    /\ check.raised
    /\ call.environment_status = "Deployed"
    /\ call.os_type = <<SetSpace(TRUE, {"Linux"})>>

\* ------------------------------------------------------------------- C19
\* the loop over the nodes was entered
OsChecked ==
    /\ check.returned
    /\ call.environment.capable
    /\ call.os_type # <<>>
    /\ call.environment.status = "Connected"

\* node i does not meet the os_type of the requirement
NodeFails(i) ==
    ~SetSpace_check(call.os_type[1], SetSpace(TRUE, mro(call.environment.nodes[i]))).result

\* the first node that does not meet the os_type, the last node when all do
StopsAt ==
    LET failing == {i \in 1..Len(call.environment.nodes) : NodeFails(i)}
    IN  IF failing = {} THEN Len(call.environment.nodes)
        ELSE CHOOSE i \in failing : \A j \in failing : i <= j

\* C19 as stated: without save_reason the check of the nodes stops at the
\* first node that fails, with save_reason every node is checked
C19_ContinuesForReason ==
    OsChecked =>
        check.checked = IF call.save_reason THEN Len(call.environment.nodes) ELSE StopsAt

\* C19 amended: the check of the nodes stops at the first node that fails
\* whether or not the reason is asked for; save_reason only decides whether
\* the result is kept in check_results (merged into what is there) or
\* check_results is left as it was
C19_StopsAtFirstFailure ==
    /\ OsChecked => check.checked = StopsAt
    /\ (check.returned /\ ~call.save_reason) => check.check_results = call.check_results
    /\ (check.returned /\ call.save_reason) =>
           /\ Len(check.check_results) = 1
           /\ check.check_results[1].result =
                  (check.result /\ \A i \in 1..Len(call.check_results) :
                                       call.check_results[i].result)

\* with save_reason, the first of two nodes failed and the second was not
\* checked
C19_Witness ==
    /\ OsChecked
    /\ call.save_reason
    /\ Len(call.environment.nodes) = 2
    /\ NodeFails(1)
    /\ check.checked = 1
    /\ ~check.result

\* ------------------------------------------------------------------- C20
\* C20 as stated: an invocation of start during which stop() is not called
\* takes every record it is handed through the loop, whatever happened in
\* another invocation on the same TestSuite object
C20_StopStaysInItsRun ==
    (pc = "done" /\ stop_case = 0) =>
        \A i \in Records : "after_case" \in invoked[i]

\* ------------------------------------------------------------------- C21
\* the step is the caller's change of the collection it holds
CallerChanges == snapshot.held /\ load' = load /\ <<registry, snapshot>>' # <<registry, snapshot>>

\* the step applies a decorator while the caller holds a collection
RegistersWhileHeld == snapshot.held /\ load'.declared # load.declared

\* C21 as stated: a change the caller makes to a collection it was handed
\* leaves the registry as it was, and a registration leaves a collection
\* handed out earlier as it was
C21_ReadOnlySnapshots ==
    [][/\ CallerChanges => registry' = registry
       /\ RegistersWhileHeld =>
              Contents(snapshot', registry') = Contents(snapshot, registry)]_vars

\* C21 amended: the getters hand out the dict objects of the registry.  An
\* entry the caller puts into the collection is an entry of the registry
\* (get finds it), and a registration that stores an entry in the registry
\* stores it in the collection handed out earlier: at every moment the
\* collection the caller holds has the content of the registry
C21_LiveCollections ==
    [][snapshot'.held =>
           /\ Contents(snapshot', registry') = registry'[snapshot'.which]
           /\ CallerChanges =>
                  /\ registry'[snapshot.which] =
                         Append(registry[snapshot.which], CallerEntry(snapshot.which))
                  /\ snapshot.which = "all_suites" => get_suite(registry', "Z") # 0
                  /\ snapshot.which = "all_cases" => get_case(registry', "Z.z") # 0
           /\ (RegistersWhileHeld /\ ~load'.raised
                   /\ Len(registry'[snapshot.which]) > Len(registry[snapshot.which])) =>
                  Len(Contents(snapshot', registry')) =
                      Len(Contents(snapshot, registry)) + 1]_vars

\* the caller was handed the suites when the registry had none, a suite was
\* registered after that, and the caller put an entry of its own: the
\* registry holds both
C21_Witness ==
    /\ pc = "loading"
    /\ snapshot.held
    /\ snapshot.which = "all_suites"
    /\ Len(registry.all_suites) = 2
    /\ registry.all_suites[1].key = "A"
    /\ registry.all_suites[2].key = "Z"
    /\ Cardinality(load.declared) = 1

\* ------------------------------------------------------------------- C22
\* the result messages record i has emitted with status RUNNING
RunningMessages(r) == {k \in 1..Len(r.sent) : r.sent[k].status = "RUNNING"}

\* the step is an attempt of a hook or a body that retry_call repeats
RetriedAttempt ==
    /\ pc \in {"before_case", "run_case", "after_case"}
    /\ pc' = pc
    /\ tries' = tries - 1

\* C22: start moves every record it processes into RUNNING once, whatever
\* the number of attempts (one timer, one RUNNING result message), and an
\* attempt of a hook or a body that is retried changes no record: no
\* status, no message log, no result message
C22_RetriesInvisible ==
    /\ [](\A i \in Records :
             /\ results[i].timers = IF i <= idx THEN 1 ELSE 0
             /\ Cardinality(RunningMessages(results[i])) = results[i].timers)
    /\ [][RetriedAttempt => results' = results]_vars

\* the body of a record was invoked twice and failed twice: the record was
\* RUNNING once and holds the failure once
C22_Witness ==
    /\ pc = "after_case"
    /\ calls.hook = "body"
    /\ calls.attempts = 2
    /\ raised.body[idx].raises
    /\ results[idx].status = "FAILED"
    /\ results[idx].timers = 1
    /\ Len(results[idx].sent) = 3

\* ------------------------------------------------------------------- C23
CaseHooks == {"before_case", "body", "after_case"}

\* the step invokes hook for the record in process
Invokes(hook) ==
    /\ calls'.hook = hook
    /\ calls.hook # hook \/ calls'.attempts = calls.attempts + 1

\* no hook and no body of a record has been invoked
NoCaseHookYet == \A i \in Cases : invoked[i] = {}

\* C23: the hooks are invoked one after the other in a fixed order.
\* before_suite is invoked once, before every hook of a record; a hook of
\* record idx is invoked after before_suite and before after_suite, when
\* every earlier record has had its after_case and no later record has had
\* a hook; for one record no attempt of before_case follows an attempt of
\* the body or of after_case, and no attempt of the body follows an attempt
\* of after_case; after_suite is invoked once, after everything else
C23_HookOrder ==
    /\ [](/\ calls.before_suite <= 1
          /\ calls.after_suite <= 1
          /\ pc = "done" => calls.before_suite = 1 /\ calls.after_suite = 1)
    /\ [][/\ calls'.before_suite # calls.before_suite =>
                 calls.before_suite = 0 /\ calls.after_suite = 0 /\ NoCaseHookYet
          /\ \A hook \in CaseHooks : Invokes(hook) =>
                 /\ calls.before_suite = 1
                 /\ calls.after_suite = 0
                 /\ idx' = idx
                 /\ \A j \in Records : j < idx => "after_case" \in invoked[j]
                 /\ \A j \in Records : j > idx => invoked[j] = {}
                 /\ hook = "before_case" => invoked[idx] \subseteq {"before_case"}
                 /\ hook = "body" => "after_case" \notin invoked[idx]
          /\ calls'.after_suite # calls.after_suite =>
                 /\ calls.before_suite = 1
                 /\ calls.after_suite = 0
                 /\ pc' = "done"
                 /\ \A j \in Records : invoked[j] # {} => "after_case" \in invoked[j]
          /\ pc = "done" => calls' = calls /\ invoked' = invoked]_vars

\* start has returned after two records, each with before_case, body and
\* after_case invoked, between one before_suite and one after_suite
C23_Witness ==
    /\ pc = "done"
    /\ n = 2
    /\ calls.before_suite = 1
    /\ calls.after_suite = 1
    /\ \A i \in Records : invoked[i] = CaseHooks
    /\ runtime_data[1].retry = 1

\* ------------------------------------------------------------------- C24
\* the iteration of the for loop for record i is over
IterationOver(i) ==
    \/ i < idx
    \/ i = idx /\ pc \in {"loop_check", "for", "after_suite", "done"}

\* C24: every record that start has moved to RUNNING has its after_case
\* invoked before its iteration ends, at least once and at most retry + 1
\* times, whatever became of before_suite, before_case and the body
C24_AfterCaseAlways ==
    /\ \A i \in Records :
           (results[i].timers = 1 /\ IterationOver(i)) => "after_case" \in invoked[i]
    /\ pc = "loop_check" =>
           /\ calls.hook = "after_case"
           /\ calls.attempts >= 1
    /\ calls.hook = "after_case" => calls.attempts <= runtime_data[idx].retry + 1

\* a record skipped because before_suite failed has had after_case, and
\* nothing else, invoked twice for retry 1
C24_Witness ==
    /\ pc = "loop_check"
    /\ hook_failed.before_suite
    /\ results[idx].status = "SKIPPED"
    /\ invoked[idx] = {"after_case"}
    /\ runtime_data[idx].retry = 1
    /\ calls.attempts = 2

\* a record skipped because every attempt of before_case failed has had
\* after_case invoked
C24_WitnessBeforeCase ==
    /\ pc = "loop_check"
    /\ raised.before_case.raises
    /\ results[idx].status = "SKIPPED"
    /\ invoked[idx] = {"before_case", "after_case"}

\* ------------------------------------------------------------------- C25
\* record i as set_status(RUNNING, "") leaves it at the head of its iteration
Running(i) == set_status(entry[i], "RUNNING", "")

\* the retry_call of hook for the record in process has just ended, after
\* an attempt that raised and was repeated
EndedAfterRetry(hook) ==
    /\ pc = "after_case"
    /\ calls.hook = hook
    /\ raised.earlier # "none"

\* C25: when a retry_call ends after attempts that raised and were repeated,
\* the record is what the outcome of the last attempt alone makes of the
\* RUNNING record: the last exception of the body classified, SKIPPED with
\* the text of the last exception of before_case, PASSED with nothing
\* logged, or still RUNNING when before_case returned; the exceptions of
\* the earlier attempts, signals included, leave
\* no trace in status, message log or result messages
C25_OnlyFinalFailure ==
    /\ EndedAfterRetry("body") =>
           results[idx] =
               IF raised.body[idx].raises
               THEN handle_exception(Running(idx), raised.body[idx],
                                     runtime_data[idx].ignore_failure, "")
               ELSE set_status(Running(idx), "PASSED", "")
    /\ (pc = "run_case" /\ calls.hook = "before_case" /\ raised.earlier # "none") =>
           results[idx] = Running(idx)
    /\ EndedAfterRetry("before_case") =>
           /\ raised.before_case.raises
           /\ results[idx] =
                  set_status(Running(idx), "SKIPPED",
                             "before_case: " \o raised.before_case.text)

\* the body raised a signal on its first attempt and a generic error
\* on its second and last: the record is FAILED with the text of the second
C25_Witness ==
    /\ EndedAfterRetry("body")
    /\ calls.attempts = 2
    /\ raised.earlier = "signal"
    /\ raised.body[idx].raises
    /\ raised.body[idx].classes = {}
    /\ raised.body[idx].text = "boom"
    /\ results[idx].status = "FAILED"
    /\ Added(idx) = "failed: boom"

\* ------------------------------------------------------------------- C26
\* the message log that the texts given so far make, oldest first, after
\* what the record held when it was constructed
LogOldestFirst ==
    JoinAll(IF entry[1].message # "" THEN <<entry[1].message>> \o call.said
            ELSE call.said)

\* C26: after every sequence of calls of set_status the message log is the
\* log the record was constructed with followed by the non-empty messages
\* of the calls, in the order of the calls, with one newline between two of
\* them; a call with an empty message leaves the log as it was
C26_OldestFirst ==
    /\ results[1].message = LogOldestFirst
    /\ (call.number > 0 /\ call.message = "") => results[1].message = snapshot.message

\* a record constructed with a log was given "m", then an empty message,
\* then the list k, l
C26_Witness ==
    /\ pc = "set_status"
    /\ call.number = 3
    /\ call.said = <<"m", "k", "l">>
    /\ entry[1].message = "notrun: earlier"
    /\ results[1].message = "notrun: earlier\nm\nk\nl"

\* ------------------------------------------------------------------- C27
\* C27: every result message the record has emitted carries at most
\* MaxMessageLen characters, which are the first characters of the log; a
\* message emitted by the latest call carries the whole log when the log is
\* no longer than that; and the log itself is kept whole, every text it
\* was given included, when a message is emitted
C27_MessageCut ==
    /\ \A k \in 1..Len(results[1].sent) :
           /\ Len(results[1].sent[k].message) <= MaxMessageLen
           /\ StartsWith(results[1].message, results[1].sent[k].message)
    /\ call.number > 0 =>
           \A k \in 1..Len(Emitted) : Carries(Emitted[k].message, results[1].message)
    /\ Emitted # <<>> =>
           /\ results[1].message = LogOldestFirst
           /\ Len(results[1].message) >= Len(snapshot.message)

\* the first call on a record with a log of MaxMessageLen characters added a
\* text and changed the status: the result message carries the first
\* MaxMessageLen characters and the log holds two more
C27_Witness ==
    /\ pc = "set_status"
    /\ call.number = 1
    /\ call.message = "m"
    /\ Len(snapshot.message) = MaxMessageLen
    /\ Len(results[1].message) = MaxMessageLen + 2
    /\ Len(Emitted) = 1
    /\ Len(Emitted[1].message) = MaxMessageLen
    /\ Emitted[1].message = snapshot.message

\* ------------------------------------------------------------------- C28
\* C28: from the moment start is about to invoke before_suite until it has
\* returned the environment is marked as used, whatever it was marked when
\* it was handed in and whatever path start takes; no step of start marks
\* it new again
C28_EnvironmentUsed ==
    /\ [](pc # "idle" => ~is_new)
    /\ [][/\ calls'.before_suite # calls.before_suite => ~is_new
          /\ ~is_new => ~is_new']_vars

\* start has returned from a run in which before_suite failed and stop()
\* ended the loop after the first of two records
C28_Witness ==
    /\ pc = "done"
    /\ ~is_new
    /\ hook_failed.before_suite
    /\ n = 2
    /\ idx = 1
    /\ should_stop

\* start has returned from a run with no record
C28_WitnessEmpty ==
    /\ pc = "done"
    /\ ~is_new
    /\ n = 0
    /\ calls.after_suite = 1

\* ------------------------------------------------------------------- C29
\* C29: when the iteration of a record is over, and so when start has
\* returned, the record, which start had moved to RUNNING, holds another
\* status; a record whose iteration start never began is as it was handed
\* in, status included, with no hook invoked for it
C29_NoneLeftRunning ==
    \A i \in Records :
        /\ IterationOver(i) =>
               /\ Cardinality(RunningMessages(results[i])) = 1
               /\ results[i].status # "RUNNING"
        /\ i > idx =>
               /\ results[i].status = entry[i].status
               /\ Untouched(i)

\* start has returned after stop() ended the loop in the first of two
\* records, whose before_case had failed on every attempt: the first is
\* SKIPPED, the second is as it was handed in
C29_Witness ==
    /\ pc = "done"
    /\ n = 2
    /\ idx = 1
    /\ invoked[1] = {"before_case", "after_case"}
    /\ results[1].status = "SKIPPED"
    /\ results[1].timers = 1
    /\ results[2] = entry[2]

\* ------------------------------------------------------------------- C30
\* the invocations the three retry_calls of the records after record i can
\* make: 3 * (retry + 1) for each
RECURSIVE AfterRecord(_)
AfterRecord(i) ==
    IF i >= n THEN 0 ELSE 3 * (runtime_data[i + 1].retry + 1) + AfterRecord(i + 1)

\* the bound of the claim for the records handed to start
InvocationBound == 2 + AfterRecord(0)

\* the invocations of hooks and bodies start can still make from where it
\* is: the attempts left to the retry_call in progress, the retry_calls of
\* the record that have not begun, the records to come, after_suite
InvocationsLeft ==
    IF pc \in {"idle", "before_suite"} THEN InvocationBound
    ELSE IF pc = "for" THEN AfterRecord(idx) + 1
    ELSE IF pc = "before_case"
    THEN tries + 2 * (runtime_data[idx].retry + 1) + AfterRecord(idx) + 1
    ELSE IF pc = "run_case"
    THEN tries + (runtime_data[idx].retry + 1) + AfterRecord(idx) + 1
    ELSE IF pc = "after_case" THEN tries + AfterRecord(idx) + 1
    ELSE IF pc = "loop_check" THEN AfterRecord(idx) + 1
    ELSE IF pc = "after_suite" THEN 1
    ELSE 0

\* the steps of start that are no invocation and can still be taken: per
\* record the entry into its iteration and the test of the stop signal, the
\* entry into start and the end of the loop
OtherStepsLeft ==
    IF pc = "idle" THEN 2 * n + 2
    ELSE IF pc = "before_suite" THEN 2 * n + 1
    ELSE IF pc = "for" THEN 2 * (n - idx) + 1
    ELSE IF pc \in {"before_case", "run_case", "after_case", "loop_check"}
    THEN 2 * (n - idx) + 2
    ELSE 0

\* the step invokes a hook or a body
Invocation ==
    \/ calls'.before_suite # calls.before_suite
    \/ calls'.after_suite # calls.after_suite
    \/ calls'.hook \in CaseHooks /\ Invokes(calls'.hook)

\* the step is a step of start, not of stop()
StepOfStart == pc' # pc \/ tries' # tries

\* C30: start returns after at most 2 + the sum over the records of
\* 3 * (retry + 1) invocations of hooks and bodies, whatever they raise and
\* whenever stop() is called.  On entry the invocations start can still
\* make are that many; every invocation takes one or more of them away and
\* no step adds any; every step of start takes away one or more of the
\* steps it can still take; and when none is left start has returned
C30_Terminates ==
    /\ [](LET left == InvocationsLeft
          IN  /\ pc = "idle" => left = InvocationBound
              /\ left >= 0
              /\ left <= InvocationBound
              /\ left + OtherStepsLeft = 0 <=> pc = "done")
    /\ [][LET left == InvocationsLeft
              after == InvocationsLeft'
              steps == left + OtherStepsLeft
              steps_after == after + OtherStepsLeft'
          IN  /\ Invocation => after <= left - 1
              /\ after <= left
              /\ StepOfStart => steps_after <= steps - 1
              /\ steps_after <= steps
              /\ pc = "done" => ~Invocation /\ ~StepOfStart]_vars

\* start has returned after it made every invocation the bound allows:
\* two records with retry 1, every attempt of every hook and body failed
\* but the last of before_case
C30_Witness ==
    /\ pc = "done"
    /\ n = 2
    /\ \A i \in Records :
           /\ runtime_data[i].retry = 1
           /\ invoked[i] = CaseHooks
           /\ raised.body[i].raises
    /\ hook_failed.after_suite
    /\ ~hook_failed.before_suite
    /\ InvocationBound = 14

\* ------------------------------------------------------------------- C31
\* C31: check_environment looks at the operating systems of the nodes only
\* for a Connected environment that passed the capability check.  For an
\* environment in another status it returns the result of the capability
\* check and has examined no node, whatever the nodes run and whatever
\* os_type asks for; when the capability check fails it returns False and
\* has examined no node
C31_OsCheckGuarded ==
    pc = "returned" =>
        LET capability == EnvironmentSpace_check(call.environment.capable)
        IN  /\ call.environment.status # "Connected" =>
                   /\ check.result = capability.result
                   /\ check.checked = 0
            /\ ~capability.result =>
                   /\ ~check.result
                   /\ check.checked = 0
            /\ check.checked > 0 =>
                   /\ call.environment.status = "Connected"
                   /\ capability.result
                   /\ check.requirement[1].os_type # <<>>

\* a Prepared environment whose two nodes run Ubuntu passed the check of a
\* requirement that asks for Windows: no node was examined
C31_Witness ==
    /\ pc = "returned"
    /\ call.environment.status = "Prepared"
    /\ call.environment.capable
    /\ call.environment.nodes = <<"Ubuntu", "Ubuntu">>
    /\ check.requirement[1].os_type = <<SetSpace(TRUE, {"Windows"})>>
    /\ check.result
    /\ check.checked = 0

\* a Connected environment failed the capability check: its nodes, which
\* the requirement would have turned down, were not examined
C31_WitnessNotCapable ==
    /\ pc = "returned"
    /\ call.environment.status = "Connected"
    /\ ~call.environment.capable
    /\ Len(call.environment.nodes) = 2
    /\ check.requirement[1].os_type # <<>>
    /\ ~check.result
    /\ check.checked = 0

\* ------------------------------------------------------------------- C32
\* the case list of the suite at position s of _all_suites
CaseList(s) == registry.all_suites[s].cases

\* C32 as stated: after every sequence of registrations, those that raised
\* included, no case is twice in the case list of a suite, no case is in
\* the case lists of two suites, and every case in the case list of a suite
\* refers to that suite
C32_AttachedOnce ==
    \A s \in 1..Len(registry.all_suites) :
        /\ \A j, k \in 1..Len(CaseList(s)) : CaseList(s)[j] = CaseList(s)[k] => j = k
        /\ \A t \in 1..Len(registry.all_suites) : t # s =>
               \A j \in 1..Len(CaseList(s)), k \in 1..Len(CaseList(t)) :
                   CaseList(s)[j] # CaseList(t)[k]
        /\ \A j \in 1..Len(CaseList(s)) :
               registry.all_cases[get_case(registry, CaseList(s)[j])].suite =
                   registry.all_suites[s].key

\* no registered suite has a dot in its name: every suite is named as a
\* top-level class is
PlainSuiteNames ==
    \A s \in 1..Len(registry.all_suites) :
        split_first(registry.all_suites[s].key) = registry.all_suites[s].key

\* the attachment is as C32 states as long as no suite name has a dot, where
\* the prefix rule of _add_suite_metadata and the split rule of
\* _add_case_metadata name the same suite or the prefix rule names none
C32_PlainSuiteNames == PlainSuiteNames => C32_AttachedOnce

\* ----------------------------------------------------------------- C33
\* the locals of the call of _load_from_runbook
Locals == call.locals

\* the call is over, for a runbook that has a variable section
LoadOver == pc \in {"returned", "raised"} /\ call.runbook_data # <<>>

\* the keys an entry refers to, in its file and in its value
Refers(entry_) ==
    LET matches == findall(entry_.file \o entry_.value, 1)
    IN  {lower(SubSeq(matches[m], 3, Len(matches[m]) - 1)) :
            m \in 1..Len(matches)}

\* the keys an entry defines once it is loaded; every variable file here has
\* the same keys
Defines(entry_) ==
    IF entry_.file = "" THEN {lower(entry_.name)}
    ELSE UNION {{lower(VariableFiles[f][k][1]) : k \in 1..Len(VariableFiles[f])} :
                   f \in DOMAIN VariableFiles}

\* the keys that can ever be defined: the least set that holds the
\* higher-level keys and the keys of each entry that refers to its keys only
RECURSIVE Definable(_, _)
Definable(entries, defined) ==
    LET more == defined \cup UNION {Defines(entries[i]) :
                    i \in {k \in 1..Len(entries) : Refers(entries[k]) \subseteq defined}}
    IN  IF more = defined THEN defined ELSE Definable(entries, more)

\* entry i of the section refers to nothing that can never be defined
CanResolve(i) ==
    Refers(Locals.variable_entries[i])
        \subseteq Definable(Locals.variable_entries,
                            DOMAIN Locals.higher_level_variables)

\* the variables as they are handed to the call: none is marked used
AtEntry(variables) ==
    [key \in DOMAIN variables |-> [variables[key] EXCEPT !.is_used = FALSE]]

\* the section in another declaration order
Reordered(entries, order) == [i \in 1..Len(entries) |-> entries[order[i]]]

Orders(k) == {order \in [1..k -> 1..k] : \A i, j \in 1..k : order[i] = order[j] => i = j}

\* no key is defined by two entries of the section
DefinedOnce(entries) ==
    \A i, j \in 1..Len(entries) :
        i # j => Defines(entries[i]) \cap Defines(entries[j]) = {}

\* what the call ends with
Outcome == [raised |-> Locals.error,
            current_variables |-> Locals.current_variables,
            higher_level_variables |-> Locals.higher_level_variables]

\* the call ends the same way for the section in the declaration order order:
\* the same exception or none and the same keys, and where no key is defined
\* twice the same variables
SameFor(order) ==
    LET entries == Locals.variable_entries
    IN  \A other \in {load_from_runbook(Reordered(entries, order),
                                        AtEntry(Locals.higher_level_variables))} :
        /\ other.raised = Outcome.raised
        /\ DOMAIN other.current_variables = DOMAIN Outcome.current_variables
        /\ DefinedOnce(entries) =>
               /\ other.current_variables = Outcome.current_variables
               /\ other.higher_level_variables = Outcome.higher_level_variables

\* entry i refers to key, which only entries after it in the section define
DefinedLater(i, key) ==
    /\ key \in Refers(Locals.variable_entries[i])
    /\ key \notin DOMAIN Locals.higher_level_variables
    /\ \A j \in 1..i : key \notin Defines(Locals.variable_entries[j])

C33_WitnessCycle ==
    /\ pc = "raised"
    /\ Locals.error = "variables are undefined"
    /\ call.runbook_data = <<<<Variable("", "e", "$(f)"),
                              Variable("", "f", "$(e)"),
                              Variable("", "b", "1")>>>>
    /\ Locals.resolved_in = <<0, 0, 1>>
    /\ Locals.passes = 2

====
